---- MODULE Spec2Model ----
(***************************************************************************)
(* Model of the graft runtime: the level scheduler (engine.topoSortLevels) *)
(* and the concurrent engine (engine.run / engine.runLevel) with its       *)
(* result map, per-task snapshots and the shared node-output cache.        *)
(*                                                                         *)
(* Go maps are modelled as functions whose DOMAIN is the key set.  A Go    *)
(* slice is a sequence.  The iteration order of a Go map is unspecified;   *)
(* it is the variable `order`, a permutation of the identifiers chosen in  *)
(* Init.  A node output is a positive integer (the number of the execution *)
(* that produced it, so outputs of different executions differ); Null (0)  *)
(* is Go's nil.                                                            *)
(***************************************************************************)
EXTENDS Integers, Sequences, FiniteSets, TLC

\* The identifiers nodes are drawn from.
IDs == {"a", "b", "c"}

\* The order in which the identifiers are written.
Rank == [id \in IDs |-> CASE id = "a" -> 1 [] id = "b" -> 2 [] OTHER -> 3]

\* Longest dependsOn list of a node.
MaxDeps == 2

\* Number of successive executions sharing the cache.
MaxRuns == 2

\* Longest list of targets given to the resolvers.
MaxTargets == 2

\* Number of callers that execute concurrently with the default cache.
MaxExecs == 2

\* Longest list of identifiers given to MemoryCache.Delete.
MaxDeleted == 2

\* Longest list of options given to Execute and ExecuteFor.
MaxOpts == 2

Null == 0

VARIABLES
    nodes,      \* engine.nodes: id -> [id, dependsOn, run, cacheable]
    order,      \* iteration order of Go's range over a map
    pc,         \* position of the goroutine that called run
    levels,     \* levels returned by topoSortLevels
    schedErr,   \* error returned by topoSortLevels
    lvl,        \* index of the level the loop of run is at
    tasks,      \* tasks[k][i]: the goroutine runLevel started for levels[k][i]
    results,    \* engine.results
    errCh,      \* errCh of the runLevel in progress
    cache,      \* the store of the cache shared by the executions
    cacheFallible, \* the cache is an implementation whose Get/Set can fail
    cancellable, \* the caller's context can be cancelled
    cfg,        \* config of the execution in progress
    cancelled,  \* ctx.Err() != nil
    runNo,      \* number of the execution in progress
    cur,        \* bookkeeping of the execution in progress
    last,       \* what the execution that returned last did and returned
    prev,       \* the same for the execution before it
    targets,    \* the targets given to resolveSubgraph and to Builder.BuildFor
    resolved,   \* what resolveSubgraph returned
    built,      \* what Builder.BuildFor resolved
    execs,      \* the engines of the executions of concurrent callers
    executionCount, \* per node, the number of calls of its function so far
    globalRegistry, \* the global registry (var registry): id -> node
    typeToID,   \* the global type index: output type -> id
    call,       \* the Execute or ExecuteFor call in progress or returned last
    obs,        \* what the last call of the registry or MemoryCache API returned
    lastOp,     \* per identifier, the last MemoryCache call that affected it
    mu          \* engine.mu: the holder of the write lock and the holders of the read lock

vars == <<nodes, order, pc, levels, schedErr, lvl, tasks, results, errCh, cache,
          cacheFallible, cancellable, cfg, cancelled, runNo, cur, last, prev,
          targets, resolved, built, execs, executionCount,
          globalRegistry, typeToID, call, obs, lastOp, mu>>

\* the variables that the engine of a single execution does not touch
outsideEngine == <<targets, resolved, built, execs, executionCount,
                   globalRegistry, typeToID, call, obs, lastOp, mu>>

\* the variables of the engine of a single execution and of its caller
engineRun == <<pc, levels, schedErr, lvl, tasks, results, errCh, cfg, cancelled,
               runNo, cur, last, prev>>

----------------------------------------------------------------------------
(* Maps *)

EmptyMap == [x \in {} |-> Null]

Put(m, k, v) == [x \in DOMAIN m \cup {k} |-> IF x = k THEN v ELSE m[x]]

Has(m, k) == k \in DOMAIN m

(* Sequences *)

Range(s) == {s[i] : i \in 1..Len(s)}

RECURSIVE Flatten(_)
Flatten(ss) == IF ss = <<>> THEN <<>> ELSE Head(ss) \o Flatten(Tail(ss))

Repeat(x, k) == [i \in 1..k |-> x]

Occurs(s, x) == Cardinality({i \in 1..Len(s) : s[i] = x})

SeqsUpTo(S, n) == UNION {[1..k -> S] : k \in 0..n}

Perms(S) == {p \in [1..Cardinality(S) -> S] : Range(p) = S}

----------------------------------------------------------------------------
(* Errors *)

NoErr == [kind |-> "nil", id |-> "", dep |-> ""]

UnknownDepErr(id, dep) == [kind |-> "unknown dependency", id |-> id, dep |-> dep]

CycleErr == [kind |-> "cycle", id |-> "", dep |-> ""]

NodeErr(id) == [kind |-> "node", id |-> id, dep |-> ""]

CacheGetErr(id) == [kind |-> "cache get", id |-> id, dep |-> ""]

CacheSetErr(id) == [kind |-> "cache set", id |-> id, dep |-> ""]

CtxErr == [kind |-> "context canceled", id |-> "", dep |-> ""]

UnknownNodeErr(id) == [kind |-> "unknown node", id |-> id, dep |-> ""]

----------------------------------------------------------------------------
(* engine.topoSortLevels *)

\* range over e.nodes (or over inDegree, which has the same keys)
KeysInOrder(ns, ord) == SelectSeq(ord, LAMBDA id : id \in DOMAIN ns)

\* the first dependency of the list that is not a key of e.nodes
RECURSIVE FirstUnknown(_, _)
FirstUnknown(deps, ns) ==
    IF deps = <<>> THEN ""
    ELSE IF Head(deps) \notin DOMAIN ns THEN Head(deps)
    ELSE FirstUnknown(Tail(deps), ns)

\* the dependency lists are not looked at
CheckDepsSkipped(keys, ns) == NoErr

\* the first loop over e.nodes: the unknown-dependency check
RECURSIVE CheckDeps(_, _)
CheckDeps(keys, ns) ==
    IF keys = <<>> THEN NoErr
    ELSE LET n == ns[Head(keys)]
             u == FirstUnknown(n.dependsOn, ns)
         IN IF u # "" THEN UnknownDepErr(n.id, u)
            ELSE CheckDeps(Tail(keys), ns)

\* appends already when one dependency is still outstanding
RECURSIVE DecrementOffByOne(_, _, _)
DecrementOffByOne(ds, inDeg, next) ==
    IF ds = <<>> THEN [inDegree |-> inDeg, nextLevel |-> next]
    ELSE LET d == Head(ds)
             dec == [inDeg EXCEPT ![d] = @ - 1]
         IN DecrementOffByOne(Tail(ds), dec,
                      IF dec[d] \in {0, 1} THEN Append(next, d) ELSE next)

\* the inner loops of the peeling: inDegree[dependent]--, append at zero
RECURSIVE Decrement(_, _, _)
Decrement(ds, inDeg, next) ==
    IF ds = <<>> THEN [inDegree |-> inDeg, nextLevel |-> next]
    ELSE LET d == Head(ds)
             dec == [inDeg EXCEPT ![d] = @ - 1]
         IN Decrement(Tail(ds), dec,
                      IF dec[d] = 0 THEN Append(next, d) ELSE next)

\* the in-degrees are never set from the dependency lists
InDegreeZero(ns) == [id \in DOMAIN ns |-> 0]

\* inDegree[n.id] = len(n.dependsOn)
InDegree(ns) == [id \in DOMAIN ns |-> Len(ns[id].dependsOn)]

\* dependents[dep] = append(dependents[dep], n.id), n in range order
RECURSIVE DependentsOf(_, _, _)
DependentsOf(keys, ns, dep) ==
    IF keys = <<>> THEN <<>>
    ELSE LET n == ns[Head(keys)]
         IN Repeat(n.id, Occurs(n.dependsOn, dep)) \o DependentsOf(Tail(keys), ns, dep)

\* the loop `for len(currentLevel) > 0`
RECURSIVE Peel(_, _, _, _)
Peel(currentLevel, inDeg, dependents, lvls) ==
    IF currentLevel = <<>> THEN lvls
    ELSE LET ds == Flatten([i \in 1..Len(currentLevel) |-> dependents[currentLevel[i]]])
             r  == Decrement(ds, inDeg, <<>>)
         IN Peel(r.nextLevel, r.inDegree, dependents, Append(lvls, currentLevel))

\* the count of processed nodes is taken to be the node count
ProcessedIsNodeCount(lvls) == Cardinality(DOMAIN nodes)

\* processed += len(currentLevel), over all levels
Processed(lvls) == Len(Flatten(lvls))

topoSortLevels(ns, ord) ==
    LET keys == KeysInOrder(ns, ord)
        unknown == CheckDeps(keys, ns)
    IN IF unknown # NoErr THEN [levels |-> <<>>, err |-> unknown]
       ELSE LET inDegree == InDegree(ns)
                dependents == [dep \in DOMAIN ns |-> DependentsOf(keys, ns, dep)]
                currentLevel == SelectSeq(keys, LAMBDA id : inDegree[id] = 0)
                lvls == Peel(currentLevel, inDegree, dependents, <<>>)
            IN IF Processed(lvls) # Cardinality(DOMAIN ns)
               THEN [levels |-> <<>>, err |-> CycleErr]
               ELSE [levels |-> lvls, err |-> NoErr]

----------------------------------------------------------------------------
(* Node sets *)

\* a node; run is "ok" for a function that always returns an output and
\* "flaky" for one that may return an error ("custom", "patched" and "value"
\* are the functions of a custom registry, of Patch and of PatchValue)
NodeOf(id, deps, run, c) ==
    [id |-> id, dependsOn |-> deps, run |-> run, cacheable |-> c]

\* every node set over IDs with dependency lists of at most MaxDeps entries
NodeSets(runs, cacheables) ==
    UNION {[S -> SeqsUpTo(IDs, MaxDeps) \X runs \X cacheables] : S \in SUBSET IDs}

AsNodes(g) == [id \in DOMAIN g |-> NodeOf(id, g[id][1], g[id][2], g[id][3])]

DepSet(ns, id) == Range(ns[id].dependsOn)

\* every dependency identifier is a node of the set
Closed(ns) == \A id \in DOMAIN ns : DepSet(ns, id) \subseteq DOMAIN ns

\* the identifiers reachable from S over dependsOn in at most k steps
RECURSIVE ReachIn(_, _, _)
ReachIn(ns, S, k) ==
    IF k = 0 THEN S
    ELSE ReachIn(ns, S \cup UNION {DepSet(ns, id) : id \in S \cap DOMAIN ns}, k - 1)

Acyclic(ns) ==
    \A id \in DOMAIN ns :
        id \notin ReachIn(ns, DepSet(ns, id), Cardinality(DOMAIN ns))

LevelsOf(lvls, id) == {k \in 1..Len(lvls) : id \in Range(lvls[k])}

----------------------------------------------------------------------------
(* The scheduler applied to arbitrary node sets *)

NoCount == [id \in IDs |-> 0]

\* no function has returned an output
NoOut == [id \in IDs |-> Null]

NewCur(store) == [calls |-> NoCount, gets |-> NoCount, sets |-> NoCount,
                  outs |-> NoOut, fns |-> {}, cancelAt |-> 0, cancelledAtCall |-> FALSE,
                  cacheAtStart |-> store]

NoConfig == [cache |-> FALSE, ignoreCacheFor |-> {}]

\* no execution has returned
NoRun == [run |-> 0, cfg |-> NoConfig, err |-> NoErr, returned |-> EmptyMap,
          committed |-> EmptyMap, calls |-> NoCount, outs |-> NoOut, fns |-> {},
          levels |-> <<>>, cancelAt |-> 0, cancelledAtCall |-> FALSE,
          cacheAtStart |-> EmptyMap, cacheAtEnd |-> EmptyMap]

\* resolveSubgraph and BuildFor have not been called
NoResolution == [needed |-> EmptyMap, err |-> NoErr]

\* neither Execute nor ExecuteFor has been called
NoCall == [kind |-> "none", type |-> "", targets |-> <<>>, opts |-> <<>>,
           registry |-> EmptyMap, custom |-> EmptyMap, returned |-> FALSE,
           val |-> Null, err |-> NoErr]

\* no call of the registry or MemoryCache API has returned
NoObs == [op |-> "none"]

\* the zero value of sync.RWMutex: nobody holds engine.mu
Unlocked == [writer |-> 0, readers |-> {}]

\* no Set, Delete or Clear has been called on the MemoryCache
NoOps == [id \in IDs |-> <<"none", Null>>]

\* no engine exists and nothing has been resolved
InitIdle ==
    /\ levels = <<>>
    /\ schedErr = NoErr
    /\ lvl = 0
    /\ tasks = <<>>
    /\ results = EmptyMap
    /\ errCh = <<>>
    /\ cfg = NoConfig
    /\ cancelled = FALSE
    /\ cur = NewCur(EmptyMap)
    /\ last = NoRun
    /\ prev = NoRun
    /\ targets = <<>>
    /\ resolved = NoResolution
    /\ built = NoResolution
    /\ execs = <<>>
    /\ executionCount = NoCount

InitCommon ==
    /\ InitIdle
    /\ cache = EmptyMap
    /\ runNo = 0
    /\ globalRegistry = EmptyMap
    /\ typeToID = EmptyMap
    /\ call = NoCall
    /\ obs = NoObs
    /\ lastOp = NoOps
    /\ mu = Unlocked

InitTopo ==
    /\ nodes \in {AsNodes(g) : g \in NodeSets({"ok"}, {FALSE})}
    /\ order \in Perms(IDs)
    /\ cacheFallible = FALSE
    /\ cancellable = FALSE
    /\ pc = "unsorted"
    /\ InitCommon

TopoSort ==
    /\ pc = "unsorted"
    /\ LET s == topoSortLevels(nodes, order)
       IN /\ levels' = s.levels
          /\ schedErr' = s.err
    /\ pc' = "sorted"
    /\ UNCHANGED <<nodes, order, lvl, tasks, results, errCh, cache,
                   cacheFallible, cancellable, cfg, cancelled, runNo, cur, last, prev,
                   outsideEngine>>

NextTopo == TopoSort

SpecTopo == InitTopo /\ [][NextTopo]_vars

----------------------------------------------------------------------------
(* The engine: Execute, engine.run, engine.runLevel *)

\* the identifiers that come before id
Below(id) == {x \in IDs : Rank[x] < Rank[id]}

\* the ascending lists without repetition over S
AscLists(S) ==
    {p \in SeqsUpTo(S, Cardinality(S)) : \A i, j \in 1..Len(p) : i < j => Rank[p[i]] < Rank[p[j]]}

\* dependency maps in which every node depends on earlier identifiers only
\* (the empty node set among them)
DownShapes ==
    {h \in UNION {[S -> AscLists(IDs)] : S \in {{}, {"a"}, {"a", "b"}, IDs}} :
        \A id \in DOMAIN h : Range(h[id]) \subseteq Below(id)}

\* dependency maps on one or two nodes with at most one dependency each:
\* among them the self-loop, the cycle and the unknown dependency
LoopShapes ==
    UNION {[S -> SeqsUpTo(IDs, 1)] : S \in {{"a"}, {"a", "b"}}}

\* the two cycles through all three identifiers
CycleShapes ==
    {h \in [IDs -> SeqsUpTo(IDs, 1)] :
        /\ \A id \in IDs : Len(h[id]) = 1 /\ h[id][1] # id
        /\ {h[id][1] : id \in IDs} = IDs}

Shapes == DownShapes \cup LoopShapes \cup CycleShapes

Weight(F, C, f, x) ==
    Cardinality(F) + Cardinality(C) + (IF f THEN 1 ELSE 0) + (IF x THEN 1 ELSE 0)

\* the node sets, caches and contexts the executions are run with: every shape,
\* with at most two of: a flaky node, a cacheable node, a cache that can fail,
\* a context that can be cancelled (on three nodes, a context that can be
\* cancelled comes alone)
EngineInputs ==
    {[nodes |-> [id \in DOMAIN q[1] |->
                   NodeOf(id, q[1][id], IF id \in q[2] THEN "flaky" ELSE "ok", id \in q[3])],
      order |-> <<"a", "b", "c">>, cacheFallible |-> q[4], cancellable |-> q[5]] :
        q \in {r \in Shapes \X (SUBSET IDs) \X (SUBSET IDs) \X BOOLEAN \X BOOLEAN :
                 /\ r[2] \subseteq DOMAIN r[1]
                 /\ r[3] \subseteq DOMAIN r[1]
                 /\ Weight(r[2], r[3], r[4], r[5]) <= 2
                 /\ (r[5] /\ DOMAIN r[1] = IDs) => Weight(r[2], r[3], r[4], r[5]) = 1}}

Cacheables(ns) == {id \in DOMAIN ns : ns[id].cacheable}

\* e.cache != nil, and the identifiers given to IgnoreCache
Configs(ns) ==
    {c \in [cache : BOOLEAN, ignoreCacheFor : SUBSET Cacheables(ns)] :
        /\ Cardinality(c.ignoreCacheFor) <= 1
        /\ ~c.cache => c.ignoreCacheFor = {}}

Init ==
    /\ \E in \in EngineInputs :
          /\ nodes = in.nodes
          /\ order = in.order
          /\ cacheFallible = in.cacheFallible
          /\ cancellable = in.cancellable
    /\ pc = "idle"
    /\ InitCommon

\* the cacheable flag of the node is not looked at
UseCacheAnyNode(n, c) == c.cache /\ n.id \notin c.ignoreCacheFor

\* useCache := e.cache != nil && n.cacheable && !e.ignoreCacheFor[nodeID]
UseCache(n, c) == c.cache /\ n.cacheable /\ n.id \notin c.ignoreCacheFor

\* e.copyResults()
copyResults(r) == [k \in DOMAIN r |-> r[k]]

\* runLevel does not wait for its goroutines
WaitSkipped(ts) == TRUE

\* no goroutine ever calls wg.Done
WaitNever(ts) == FALSE

\* wg.Wait() returns: every goroutine of the level has called wg.Done
WaitDone(ts) == \A i \in 1..Len(ts) : ts[i].pc \in {"done", "failed"}

\* the function is called without waiting for the cache lookup
AtRunUnchecked(t, n, c) == t.pc \in {"spawned", "miss"}

\* one function at a time: the call waits while another function is running
AtRunOneAtATime(t, n, c) ==
    /\ \/ t.pc = "spawned" /\ ~UseCache(n, c)
       \/ t.pc = "miss"
    /\ \A k \in 1..Len(tasks) : \A i \in 1..Len(tasks[k]) : tasks[k][i].pc # "running"

\* the goroutine goes on to n.run after a cache hit as well
AtRunAfterHit(t, n, c) ==
    \/ t.pc = "spawned" /\ ~UseCache(n, c)
    \/ t.pc \in {"miss", "hit"}

\* the goroutine is at the call of n.run: no cache for the node, or a miss
AtRun(t, n, c) ==
    \/ t.pc = "spawned" /\ ~UseCache(n, c)
    \/ t.pc = "miss"

\* the output of a node's function in execution number r; the function
\* PatchValue makes returns the value it was given
Output(id, r) == IF nodes[id].run = "value" THEN nodes[id].value ELSE r

\* the cache is written with the value of the lookup, not with the output
SetValueStale(t) == t.val

\* the value handed to e.cache.Set
SetValue(t) == t.out

\* the cache is written before the function has run
AtSetEarly(t) == t.pc \in {"ran", "miss"}

\* the goroutine is at the e.cache.Set call: n.run returned without error
AtSet(t) == t.pc = "ran"

\* every goroutine reads the loop variable, which holds the last identifier
GoroutineIDCaptured(level, i) == level[Len(level)]

\* go func(nodeID ID) {...}(id): the identifier the i-th goroutine is given
GoroutineID(level, i) == level[i]

IdleTask(id) == [id |-> id, pc |-> "idle", snap |-> EmptyMap, val |-> Null,
                 out |-> Null, wrote |-> Null]

Bump(f, id) == [f EXCEPT ![id] = @ + 1]

\* what Execute hands back to its caller, and what the execution did
Outcome(r, c, err, res, ct, store) ==
    [run |-> r, cfg |-> c, err |-> err,
     returned |-> IF err = NoErr THEN res ELSE EmptyMap,
     committed |-> res, calls |-> ct.calls, outs |-> ct.outs, fns |-> ct.fns,
     levels |-> levels, cancelAt |-> ct.cancelAt,
     cancelledAtCall |-> ct.cancelledAtCall,
     cacheAtStart |-> ct.cacheAtStart, cacheAtEnd |-> store]

Return(err) ==
    /\ last' = Outcome(runNo, cfg, err, results, cur, cache)
    /\ pc' = "idle"
    /\ levels' = <<>>
    /\ lvl' = 0
    /\ tasks' = <<>>
    /\ results' = EmptyMap
    /\ errCh' = <<>>
    /\ cur' = NewCur(EmptyMap)

\* Execute: build the config, newEngine, and the topoSortLevels call of run
Execute(c, ctxDone) ==
    /\ pc = "idle"
    /\ runNo < MaxRuns
    /\ ctxDone => cancellable
    /\ runNo' = runNo + 1
    /\ cfg' = c
    /\ cancelled' = ctxDone
    /\ prev' = last
    /\ LET s == topoSortLevels(nodes, order)
       IN /\ schedErr' = s.err
          /\ IF s.err # NoErr
             THEN /\ last' = Outcome(runNo + 1, c, s.err, EmptyMap,
                                     [NewCur(cache) EXCEPT !.cancelledAtCall = ctxDone], cache)
                  /\ cur' = NewCur(EmptyMap)
                  /\ pc' = "idle"
                  /\ UNCHANGED <<levels, lvl, tasks>>
             ELSE /\ levels' = s.levels
                  /\ lvl' = 1
                  /\ tasks' = [k \in 1..Len(s.levels) |->
                                 [i \in 1..Len(s.levels[k]) |-> IdleTask(GoroutineID(s.levels[k], i))]]
                  /\ last' = NoRun
                  /\ cur' = [NewCur(cache) EXCEPT !.cancelledAtCall = ctxDone]
                  /\ pc' = "top"
    /\ results' = EmptyMap
    /\ errCh' = <<>>
    /\ UNCHANGED <<nodes, order, cache, cacheFallible, cancellable,
                   outsideEngine>>

\* the loop of run never looks at the context
CtxNeverDone == FALSE

\* ctx.Err() != nil
CtxDone == cancelled

\* top of the loop of run: ctx.Err(), then runLevel starts one goroutine per id
LevelTop ==
    /\ pc = "top"
    /\ lvl <= Len(levels)
    /\ IF CtxDone
       THEN /\ Return(CtxErr)
       ELSE /\ tasks' = [tasks EXCEPT ![lvl] =
                          [i \in 1..Len(@) |-> [@[i] EXCEPT !.pc = "spawned"]]]
            /\ errCh' = <<>>
            /\ pc' = "wait"
            /\ UNCHANGED <<levels, lvl, results, cur, last>>
    /\ UNCHANGED <<nodes, order, schedErr, cache, cacheFallible, cancellable,
                   cfg, cancelled, runNo, prev,
                   outsideEngine>>

\* the context is looked at once more after the last level
LoopEndCtxErr == IF cancelled THEN CtxErr ELSE NoErr

\* what run returns when its loop is over: nil
LoopEnd == NoErr

\* the loop of run is over: return nil
RunReturn ==
    /\ pc = "top"
    /\ lvl > Len(levels)
    /\ Return(LoopEnd)
    /\ UNCHANGED <<nodes, order, schedErr, cache, cacheFallible, cancellable,
                   cfg, cancelled, runNo, prev,
                   outsideEngine>>

\* the error read from the channel is lost
FirstErrorDropped(ch) == NoErr

\* err := <-errCh on a channel that holds an error
FirstError(ch) == Head(ch)

\* runLevel after wg.Wait(): close(errCh), return the first error or nil
LevelJoin ==
    /\ pc = "wait"
    /\ WaitDone(tasks[lvl])
    /\ IF errCh # <<>>
       THEN Return(FirstError(errCh))
       ELSE /\ lvl' = lvl + 1
            /\ pc' = "top"
            /\ UNCHANGED <<levels, tasks, results, errCh, cur, last>>
    /\ UNCHANGED <<nodes, order, schedErr, cache, cacheFallible, cancellable,
                   cfg, cancelled, runNo, prev,
                   outsideEngine>>

\* the goroutines runLevel has created so far
TaskIdx == {ki \in (1..Len(tasks)) \X (1..Cardinality(IDs)) : ki[2] <= Len(tasks[ki[1]])}

Task(k, i) == tasks[k][i]

SetTask(k, i, t) == tasks' = [tasks EXCEPT ![k][i] = t]

\* errCh <- err; return
Fail(k, i, err) ==
    /\ SetTask(k, i, [Task(k, i) EXCEPT !.pc = "failed", !.snap = EmptyMap])
    /\ errCh' = Append(errCh, err)

\* e.cache.Get: an error, a hit or a miss
CacheGet(k, i) ==
    LET t == Task(k, i) IN
    /\ t.pc = "spawned"
    /\ UseCache(nodes[t.id], cfg)
    /\ cur' = [cur EXCEPT !.gets = Bump(@, t.id)]
    /\ \/ /\ cacheFallible
          /\ Fail(k, i, CacheGetErr(t.id))
       \/ /\ Has(cache, t.id)
          /\ SetTask(k, i, [t EXCEPT !.pc = "hit", !.val = cache[t.id]])
          /\ UNCHANGED errCh
       \/ /\ ~Has(cache, t.id)
          /\ SetTask(k, i, [t EXCEPT !.pc = "miss"])
          /\ UNCHANGED errCh
    /\ UNCHANGED <<nodes, order, pc, levels, schedErr, lvl, results, cache,
                   cacheFallible, cancellable, cfg, cancelled, runNo, last, prev,
                   outsideEngine>>

\* cache hit: e.results[nodeID] = val under e.mu
StoreHit(k, i) ==
    LET t == Task(k, i) IN
    /\ t.pc = "hit"
    /\ results' = Put(results, t.id, t.val)
    /\ SetTask(k, i, [t EXCEPT !.pc = "done"])
    /\ UNCHANGED <<nodes, order, pc, levels, schedErr, lvl, errCh, cache,
                   cacheFallible, cancellable, cfg, cancelled, runNo, cur, last, prev,
                   outsideEngine>>

\* e.copyResults() under e.mu.RLock, then n.run(nodeCtx) is called
Invoke(k, i) ==
    LET t == Task(k, i) IN
    /\ AtRun(t, nodes[t.id], cfg)
    /\ SetTask(k, i, [t EXCEPT !.pc = "running", !.snap = copyResults(results)])
    /\ cur' = [cur EXCEPT !.calls = Bump(@, t.id),
                           !.fns = @ \cup {<<t.id, nodes[t.id].run>>}]
    /\ UNCHANGED <<nodes, order, pc, levels, schedErr, lvl, results, errCh,
                   cache, cacheFallible, cancellable, cfg, cancelled, runNo, last, prev,
                   outsideEngine>>

\* n.run returns an output or an error
FnReturn(k, i) ==
    LET t == Task(k, i) IN
    /\ t.pc = "running"
    /\ \/ /\ SetTask(k, i, [t EXCEPT !.pc = "ran", !.out = Output(t.id, runNo),
                                     !.snap = EmptyMap])
          /\ cur' = [cur EXCEPT !.outs[t.id] = Output(t.id, runNo)]
          /\ UNCHANGED errCh
       \/ /\ nodes[t.id].run = "flaky"
          /\ Fail(k, i, NodeErr(t.id))
          /\ UNCHANGED cur
    /\ UNCHANGED <<nodes, order, pc, levels, schedErr, lvl, results, cache,
                   cacheFallible, cancellable, cfg, cancelled, runNo, last, prev,
                   outsideEngine>>

\* e.cache.Set(ctx, nodeID, output)
CacheSet(k, i) ==
    LET t == Task(k, i) IN
    /\ AtSet(t)
    /\ UseCache(nodes[t.id], cfg)
    /\ cur' = [cur EXCEPT !.sets = Bump(@, t.id)]
    /\ \/ /\ cacheFallible
          /\ Fail(k, i, CacheSetErr(t.id))
          /\ UNCHANGED cache
       \/ /\ cache' = Put(cache, t.id, SetValue(t))
          /\ SetTask(k, i, [t EXCEPT !.pc = "set", !.wrote = SetValue(t)])
          /\ UNCHANGED errCh
    /\ UNCHANGED <<nodes, order, pc, levels, schedErr, lvl, results,
                   cacheFallible, cancellable, cfg, cancelled, runNo, last, prev,
                   outsideEngine>>

\* e.results[nodeID] = output under e.mu
Store(k, i) ==
    LET t == Task(k, i) IN
    /\ \/ t.pc = "ran" /\ ~UseCache(nodes[t.id], cfg)
       \/ t.pc = "set"
    /\ results' = Put(results, t.id, t.out)
    /\ SetTask(k, i, [t EXCEPT !.pc = "done"])
    /\ UNCHANGED <<nodes, order, pc, levels, schedErr, lvl, errCh, cache,
                   cacheFallible, cancellable, cfg, cancelled, runNo, cur, last, prev,
                   outsideEngine>>

\* the caller's context is cancelled while the execution is in progress;
\* cur.cancelAt is the level that was running then (0: none was)
Cancel ==
    /\ cancellable
    /\ pc \in {"top", "wait"}
    /\ ~cancelled
    /\ cancelled' = TRUE
    /\ cur' = [cur EXCEPT !.cancelAt = IF pc = "wait" THEN lvl ELSE 0]
    /\ UNCHANGED <<nodes, order, pc, levels, schedErr, lvl, tasks, results,
                   errCh, cache, cacheFallible, cancellable, cfg, runNo, last, prev,
                   outsideEngine>>

Next ==
    \/ \E c \in Configs(nodes), d \in BOOLEAN : Execute(c, d)
    \/ LevelTop
    \/ RunReturn
    \/ LevelJoin
    \/ Cancel
    \/ \E ki \in TaskIdx : CacheGet(ki[1], ki[2])
    \/ \E ki \in TaskIdx : StoreHit(ki[1], ki[2])
    \/ \E ki \in TaskIdx : Invoke(ki[1], ki[2])
    \/ \E ki \in TaskIdx : FnReturn(ki[1], ki[2])
    \/ \E ki \in TaskIdx : CacheSet(ki[1], ki[2])
    \/ \E ki \in TaskIdx : Store(ki[1], ki[2])

Spec == Init /\ [][Next]_vars

----------------------------------------------------------------------------
(* The scheduler: claims checked under SpecTopo *)

Sorted == pc = "sorted"

FlatLevels == Flatten(levels)

\* C1: for an acyclic node set whose dependency identifiers all exist in the
\* set, topoSortLevels returns no error, every node is in exactly one level
\* (once), and the level sizes add up to the node count.
C1_AcyclicIsScheduled ==
    (Sorted /\ Closed(nodes) /\ Acyclic(nodes)) =>
        /\ schedErr = NoErr
        /\ \A id \in DOMAIN nodes :
              /\ Cardinality(LevelsOf(levels, id)) = 1
              /\ Occurs(FlatLevels, id) = 1
        /\ Range(FlatLevels) = DOMAIN nodes
        /\ Len(FlatLevels) = Cardinality(DOMAIN nodes)

C1_Witness ==
    /\ Sorted /\ Closed(nodes) /\ Acyclic(nodes)
    /\ DOMAIN nodes = IDs
    /\ Len(levels) = 2
    /\ \E id \in IDs : Cardinality(DepSet(nodes, id)) = 2

\* C2: in a returned schedule every dependency of a node of level k is in a
\* level j < k, and no node of a level depends on a node of the same level.
C2_DepsInEarlierLevels ==
    (Sorted /\ schedErr = NoErr) =>
        \A k \in 1..Len(levels) : \A id \in Range(levels[k]) :
            /\ \A d \in DepSet(nodes, id) :
                  \E j \in 1..(k - 1) : d \in Range(levels[j])
            /\ DepSet(nodes, id) \cap Range(levels[k]) = {}

C2_Witness ==
    /\ Sorted /\ schedErr = NoErr
    /\ Len(levels) = 3
    /\ \E id \in Range(levels[3]) : Cardinality(DepSet(nodes, id)) = 2

----------------------------------------------------------------------------
(* The engine: claims checked under Spec *)

AllTasks == {Task(ki[1], ki[2]) : ki \in TaskIdx}

\* the goroutine has made its cache lookup or called the node's function
Started(t) == t.pc \notin {"idle", "spawned"}

Returned(t) == t.pc \in {"done", "failed"}

\* the three conditions of cache use, written out
Gate(id, c) == id \in DOMAIN nodes /\ nodes[id].cacheable /\ c.cache /\ id \notin c.ignoreCacheFor

\* C3: no task of a level makes a cache lookup or calls its function before
\* every task of every earlier level has returned.
C3_LevelsSequential ==
    \A k \in 1..Len(tasks) : \A i \in 1..Len(tasks[k]) :
        Started(tasks[k][i]) =>
            \A j \in 1..(k - 1) : \A m \in 1..Len(tasks[j]) : Returned(tasks[j][m])

C3_Witness ==
    /\ Len(tasks) >= 2
    /\ Len(tasks[1]) = 2
    /\ \E i \in 1..Len(tasks[2]) : tasks[2][i].pc = "running"

\* the identifiers of the levels before level k
Before(k) == UNION {Range(levels[j]) : j \in 1..(k - 1)}

\* C4: the snapshot a node's function is called with holds exactly the
\* results of the earlier levels, and never the result of a sibling.
C4_SnapshotIsPreviousLevels ==
    \A k \in 1..Len(tasks) : \A i \in 1..Len(tasks[k]) :
        tasks[k][i].pc = "running" =>
            /\ DOMAIN tasks[k][i].snap = Before(k)
            /\ DOMAIN tasks[k][i].snap \cap Range(levels[k]) = {}

\* C5: when a node's function is called, every declared dependency has an
\* entry in the snapshot it is called with.
C5_DepsInSnapshot ==
    \A t \in AllTasks :
        t.pc = "running" => \A d \in DepSet(nodes, t.id) : Has(t.snap, d)

C5_Witness ==
    \E t, u \in AllTasks :
        /\ t.pc = "running"
        /\ u.id \in DepSet(nodes, t.id)
        /\ u.pc = "done" /\ u.val # Null
        /\ t.snap[u.id] = u.val

\* C6: within one execution a node's function is called at most once.
C6_AtMostOncePerRun ==
    \A id \in IDs : cur.calls[id] <= 1 /\ last.calls[id] <= 1

C6_Witness ==
    /\ pc = "idle" /\ last.run = 2 /\ last.err = NoErr
    /\ DOMAIN nodes = IDs
    /\ \A id \in IDs : last.calls[id] = 1 /\ prev.calls[id] = 1

\* the two executions that returned last
TwoRuns == pc = "idle" /\ prev.run >= 1 /\ last.run = prev.run + 1

\* C7: a cacheable node run by two successive executions that share the
\* cache, neither bypassing it, the first finding no entry: both succeed =>
\* the function was called once in total and both return the same output.
C7_SecondRunUsesCache ==
    TwoRuns =>
        \A id \in DOMAIN nodes :
            (/\ Gate(id, prev.cfg) /\ Gate(id, last.cfg)
             /\ prev.err = NoErr /\ last.err = NoErr
             /\ ~Has(prev.cacheAtStart, id)) =>
                /\ prev.calls[id] + last.calls[id] = 1
                /\ prev.calls[id] = 1
                /\ last.returned[id] = prev.returned[id]
                /\ last.returned[id] # Null

C7_Witness ==
    /\ TwoRuns /\ prev.err = NoErr /\ last.err = NoErr
    /\ \E id \in DOMAIN nodes :
          /\ Gate(id, prev.cfg) /\ Gate(id, last.cfg)
          /\ ~Has(prev.cacheAtStart, id)
          /\ last.calls[id] = 0
          /\ nodes[id].dependsOn # <<>>

\* C8: a cacheable node in the bypass set of an execution with a cache that
\* holds a value for it: its function is called, and after the execution
\* succeeds the cache entry is the output just produced.
C8_BypassRefreshesCache ==
    (pc = "idle" /\ last.run >= 1 /\ last.err = NoErr) =>
        \A id \in DOMAIN nodes :
            (/\ nodes[id].cacheable /\ last.cfg.cache
             /\ id \in last.cfg.ignoreCacheFor
             /\ Has(last.cacheAtStart, id)) =>
                /\ last.calls[id] = 1
                /\ Has(last.cacheAtEnd, id)
                /\ last.cacheAtEnd[id] = last.returned[id]

Written(id) ==
    Has(cache, id) /\ (Has(cur.cacheAtStart, id) => cache[id] # cur.cacheAtStart[id])

\* C10: a cache entry is written only by a task whose function has returned
\* an output in this execution, and with that output; a task whose function
\* returned an error writes nothing.
C10_CacheWrittenAfterSuccess ==
    pc # "idle" =>
        /\ \A id \in IDs :
              (cur.sets[id] > 0 \/ Written(id)) =>
                  \E t \in AllTasks : t.id = id /\ t.out # Null
        /\ \A id \in IDs :
              Written(id) => \E t \in AllTasks : t.id = id /\ t.out # Null /\ cache[id] = t.out
        /\ \A t \in AllTasks :
              /\ t.wrote # Null => (t.out # Null /\ t.wrote = t.out)
              /\ (t.pc = "failed" /\ t.out = Null) => (t.wrote = Null /\ ~Written(t.id))

C10_Witness ==
    /\ prev.run = 1 /\ prev.err = NodeErr("a") /\ Gate("a", prev.cfg)
    /\ prev.calls["a"] = 1 /\ ~Has(prev.cacheAtEnd, "a")
    /\ \E u \in AllTasks :
          u.id = "a" /\ u.pc = "set" /\ u.wrote = u.out /\ Written("a")

\* an execution has returned
Done == pc = "idle" /\ last.run >= 1

\* the identifiers of the levels after level k of the execution that returned
After(k) == UNION {Range(last.levels[j]) : j \in (k + 1)..Len(last.levels)}

\* the execution was cancelled while level k, not its last level, was running
CancelledIn(k) == Done /\ last.cancelAt = k /\ k >= 1 /\ k < Len(last.levels)

\* C11 as stated: cancellation while level k (not the last) is running makes
\* the execution report the context's error and call no function of a later
\* level.
C11_CancelDuringLevel ==
    \A k \in 1..Cardinality(IDs) :
        CancelledIn(k) =>
            /\ last.err = CtxErr
            /\ \A id \in After(k) : last.calls[id] = 0

\* C11 (amended): cancellation while level k (not the last) is running, and
\* every task of level k stores its result: the execution reports the
\* context's error; and, whether a task of level k fails or not, no task of a
\* later level is ever started.
C11_CancelDuringLevelNoFailure ==
    /\ \A k \in 1..Cardinality(IDs) :
          CancelledIn(k) =>
              /\ Range(last.levels[k]) \subseteq DOMAIN last.committed => last.err = CtxErr
              /\ last.err # NoErr
              /\ \A id \in After(k) : last.calls[id] = 0
    /\ (pc # "idle" /\ cur.cancelAt >= 1) =>
          \A j \in (cur.cancelAt + 1)..Len(tasks) : \A m \in 1..Len(tasks[j]) :
              tasks[j][m].pc = "idle" /\ cur.calls[tasks[j][m].id] = 0

C11_Witness ==
    /\ CancelledIn(1)
    /\ Cardinality(Range(last.levels[1])) = 2
    /\ Range(last.levels[1]) = DOMAIN last.committed
    /\ last.err = CtxErr

\* the cache holds what it held when the execution was called
CacheUntouched == last.cacheAtEnd = last.cacheAtStart

\* C12 as stated: with a context that is cancelled when Execute is called,
\* Execute returns the context's error and calls no function, whatever the
\* node set.
C12_CancelledAtCall ==
    (Done /\ last.cancelledAtCall) =>
        /\ last.err = CtxErr
        /\ last.calls = NoCount

\* C12 (amended): with a context that is cancelled when Execute is called, no
\* function is called and the cache is not used, whatever the node set; the
\* error is the context's for a node set with at least one node that the
\* scheduler accepts, the scheduler's for one it rejects, and nil for the
\* empty node set.
C12_CancelledAtCallScheduled ==
    /\ (Done /\ last.cancelledAtCall) =>
          /\ last.calls = NoCount /\ last.outs = NoOut
          /\ CacheUntouched /\ last.returned = EmptyMap
          /\ (DOMAIN nodes # {} /\ Closed(nodes) /\ Acyclic(nodes)) => last.err = CtxErr
          /\ (Closed(nodes) /\ ~Acyclic(nodes)) => last.err = CycleErr
          /\ ~Closed(nodes) => last.err.kind = "unknown dependency"
          /\ DOMAIN nodes = {} => last.err = NoErr
    /\ (pc # "idle" /\ cur.cancelledAtCall) =>
          /\ \A t \in AllTasks : t.pc = "idle"
          /\ cur.calls = NoCount /\ cur.gets = NoCount /\ cur.sets = NoCount

C12_Witness ==
    /\ Done /\ last.cancelledAtCall
    /\ DOMAIN nodes = IDs /\ Len(last.levels) = 2
    /\ last.err = CtxErr
    /\ prev.run = 1 /\ prev.err = NoErr /\ prev.calls["c"] = 1

\* the error a failed task has sent, wrapped with the identifier of its node
ErrOf(t) ==
    IF t.out # Null THEN CacheSetErr(t.id)
    ELSE IF cur.calls[t.id] = 0 THEN CacheGetErr(t.id)
    ELSE NodeErr(t.id)

FailedIn(k) == {i \in 1..Len(tasks[k]) : tasks[k][i].pc = "failed"}

\* no task of a level after level k has been started
LaterIdle(k) ==
    \A j \in (k + 1)..Len(tasks) : \A m \in 1..Len(tasks[j]) :
        tasks[j][m].pc = "idle" /\ cur.calls[tasks[j][m].id] = 0

\* C13: when a task of a level has failed, runLevel returns only after every
\* task of the level has returned, the execution then returns (and does not
\* go on) with the error of one of the failed tasks of that level, wrapped
\* with its node's identifier, and no task of a later level is ever started.
C13_LevelFailure ==
    [][(pc = "wait" /\ pc' # "wait" /\ (FailedIn(lvl) # {} \/ pc' = "idle")) =>
          /\ \A i \in 1..Len(tasks[lvl]) : tasks[lvl][i].pc \in {"done", "failed"}
          /\ pc' = "idle"
          /\ last'.err # NoErr
          /\ \E i \in FailedIn(lvl) : last'.err = ErrOf(tasks[lvl][i])
          /\ last'.err.id \in Range(levels[lvl])
          /\ LaterIdle(lvl)
          /\ \A j \in (lvl + 1)..Len(levels) : \A id \in Range(levels[j]) :
                last'.calls[id] = 0]_vars

C13_Witness ==
    /\ Done /\ Len(last.levels) = 2
    /\ Range(last.levels[1]) = {"a", "b"}
    /\ last.calls["a"] = 1 /\ last.calls["b"] = 1
    /\ last.outs["a"] = Null /\ last.outs["b"] = Null
    /\ last.err = NodeErr("b")
    /\ last.calls["c"] = 0

\* no task exists, no function was called, the cache was never read or written
NoSideEffects ==
    /\ pc = "idle" /\ tasks = <<>> /\ levels = <<>> /\ results = EmptyMap
    /\ cur.calls = NoCount /\ cur.gets = NoCount /\ cur.sets = NoCount
    /\ cache = EmptyMap
    /\ Done => /\ last.levels = <<>> /\ last.calls = NoCount /\ last.outs = NoOut
               /\ last.returned = EmptyMap /\ last.committed = EmptyMap
               /\ CacheUntouched

\* C14: for a node set with a self-loop or a longer cycle, and no missing
\* dependency, topoSortLevels returns the cycle error and no level, and an
\* execution calls no function and makes no cache read or write.
C14_CycleRejected ==
    (Closed(nodes) /\ ~Acyclic(nodes)) =>
        /\ NoSideEffects
        /\ Done => (last.err = CycleErr /\ schedErr = CycleErr)

C14_Witness ==
    /\ Closed(nodes) /\ ~Acyclic(nodes)
    /\ Done /\ last.run = 2 /\ last.err = CycleErr /\ prev.err = CycleErr
    /\ DOMAIN nodes = IDs
    /\ "b" \in Range(nodes["a"].dependsOn) /\ "a" \notin Range(nodes["b"].dependsOn)
    /\ last.cfg.cache /\ nodes["a"].cacheable

\* C15: when a node of the set lists a dependency that is not in the set, an
\* execution fails with the unknown-dependency error, which names such a node
\* and such a dependency, before any function is called and before any cache
\* access, cycles or not in the rest of the set.
C15_UnknownDependencyRejected ==
    ~Closed(nodes) =>
        /\ NoSideEffects
        /\ Done =>
              /\ last.err.kind = "unknown dependency"
              /\ last.err.id \in DOMAIN nodes
              /\ last.err.dep \in DepSet(nodes, last.err.id) \ DOMAIN nodes
              /\ last.err = UnknownDepErr(last.err.id, last.err.dep)
              /\ schedErr = last.err

C15_Witness ==
    /\ Done /\ last.run = 2
    /\ last.err = UnknownDepErr("a", "c") /\ prev.err = last.err
    /\ DOMAIN nodes = {"a", "b"}
    /\ nodes["b"].dependsOn = <<"b">>
    /\ last.cfg.cache /\ nodes["b"].cacheable

\* C16: an execution that returns no error returns a map whose keys are
\* exactly the identifiers of the node set; the value of a node whose function
\* was called is the output the function returned in this execution, the
\* value of any other node is the value the cache held for it.
C16_ResultsOnSuccess ==
    /\ (Done /\ last.err = NoErr) =>
          /\ DOMAIN last.returned = DOMAIN nodes
          /\ \A id \in DOMAIN nodes :
                IF last.calls[id] >= 1
                THEN /\ last.outs[id] # Null
                     /\ last.returned[id] = last.outs[id]
                ELSE /\ Has(last.cacheAtStart, id)
                     /\ last.returned[id] = last.cacheAtStart[id]
    /\ \A t \in AllTasks :
          t.pc = "done" =>
              /\ Has(results, t.id)
              /\ results[t.id] = IF cur.calls[t.id] >= 1 THEN cur.outs[t.id] ELSE cache[t.id]

C16_Witness ==
    /\ Done /\ last.err = NoErr /\ last.run = 2
    /\ DOMAIN nodes = IDs /\ Len(last.levels) = 3
    /\ last.calls["a"] = 0 /\ last.returned["a"] = 1
    /\ last.calls["b"] = 1 /\ last.returned["b"] = 2
    /\ last.calls["c"] = 1 /\ last.returned["c"] = 2

\* the levels of the execution that returned of which every task stored its
\* result
CompletedLevels ==
    {j \in 1..Len(last.levels) : Range(last.levels[j]) \subseteq DOMAIN last.committed}

\* C17: when an execution fails at some level, the results stored by the
\* levels completed before it are in what the caller of Execute gets back.
C17_EarlierResultsReturned ==
    (Done /\ last.err # NoErr) =>
        \A j \in CompletedLevels : \A id \in Range(last.levels[j]) :
            Has(last.returned, id) /\ last.returned[id] = last.committed[id]

\* a failed execution followed by another one, both using the cache for id
Retried(id) ==
    /\ TwoRuns /\ prev.err # NoErr
    /\ Gate(id, prev.cfg) /\ Gate(id, last.cfg)
    /\ prev.outs[id] # Null

----------------------------------------------------------------------------
(* Subgraph resolution: resolveSubgraph and Builder.BuildFor *)

RECURSIVE resolve(_, _, _)
RECURSIVE resolveEach(_, _, _)

\* the dependencies of a node are not followed
resolveShallow(id, registry, st) ==
    IF Has(st.needed, id) THEN st
    ELSE IF ~Has(registry, id) THEN [st EXCEPT !.err = UnknownNodeErr(id)]
    ELSE [st EXCEPT !.needed = Put(@, id, registry[id])]

\* the closure resolve of resolveSubgraph; st is the map needed and the error
resolve(id, registry, st) ==
    IF Has(st.needed, id) THEN st
    ELSE IF ~Has(registry, id) THEN [st EXCEPT !.err = UnknownNodeErr(id)]
    ELSE resolveEach(registry[id].dependsOn, registry,
                     [st EXCEPT !.needed = Put(@, id, registry[id])])

\* for _, id := range ids { if err := resolve(id); err != nil { return err } }
resolveEach(ids, registry, st) ==
    IF ids = <<>> THEN st
    ELSE LET r == resolve(Head(ids), registry, st)
         IN IF r.err # NoErr THEN r ELSE resolveEach(Tail(ids), registry, r)

resolveSubgraph(registry, ts) ==
    LET r == resolveEach(ts, registry, NoResolution)
    IN IF r.err # NoErr THEN [needed |-> EmptyMap, err |-> r.err] ELSE r

RECURSIVE buildResolve(_, _, _)
RECURSIVE buildResolveEach(_, _, _)

\* the closure resolve of Builder.BuildFor
buildResolve(id, catalog, st) ==
    IF Has(st.needed, id) THEN st
    ELSE IF ~Has(catalog, id) THEN [st EXCEPT !.err = UnknownNodeErr(id)]
    ELSE buildResolveEach(catalog[id].dependsOn, catalog,
                          [st EXCEPT !.needed = Put(@, id, catalog[id])])

buildResolveEach(ids, catalog, st) ==
    IF ids = <<>> THEN st
    ELSE LET r == buildResolve(Head(ids), catalog, st)
         IN IF r.err # NoErr THEN r ELSE buildResolveEach(Tail(ids), catalog, r)

\* the node set BuildFor hands to New, or the error
BuildFor(catalog, ts) ==
    LET r == buildResolveEach(ts, catalog, NoResolution)
    IN IF r.err # NoErr THEN [needed |-> EmptyMap, err |-> r.err] ELSE r

\* the lists without repetition over S
DistinctLists(S) ==
    {p \in SeqsUpTo(S, Cardinality(S)) : \A i, j \in 1..Len(p) : i # j => p[i] # p[j]}

\* every catalog over IDs whose dependency lists name an identifier at most
\* once: with self-loops, cycles and identifiers that are not in the catalog
Catalogs ==
    UNION {[S -> {p \in DistinctLists(IDs) : Len(p) <= MaxDeps}] : S \in SUBSET IDs}

TargetLists == SeqsUpTo(IDs, MaxTargets)

InitResolve ==
    /\ nodes \in {[id \in DOMAIN g |-> NodeOf(id, g[id], "ok", FALSE)] : g \in Catalogs}
    /\ order = <<"a", "b", "c">>
    /\ cacheFallible = FALSE
    /\ cancellable = FALSE
    /\ pc = "catalog"
    /\ InitCommon

\* executeForIDs calls resolveSubgraph(cfg.registry, targets)
ResolveSubgraph(ts) ==
    /\ pc = "catalog"
    /\ targets' = ts
    /\ resolved' = resolveSubgraph(nodes, ts)
    /\ pc' = "resolved"
    /\ UNCHANGED <<nodes, order, levels, schedErr, lvl, tasks, results, errCh, cache,
                   cacheFallible, cancellable, cfg, cancelled, runNo, cur, last, prev,
                   built, execs, executionCount, globalRegistry, typeToID, call, obs, lastOp, mu>>

\* NewBuilder(catalog).BuildFor(targets...) with the same catalog and targets
Build ==
    /\ pc = "resolved"
    /\ built' = BuildFor(nodes, targets)
    /\ pc' = "built"
    /\ UNCHANGED <<nodes, order, levels, schedErr, lvl, tasks, results, errCh, cache,
                   cacheFallible, cancellable, cfg, cancelled, runNo, cur, last, prev,
                   targets, resolved, execs, executionCount, globalRegistry, typeToID,
                   call, obs, lastOp, mu>>

\* executeForIDs goes on with newEngine(needed, cfg).run: the scheduler is
\* applied to the resolved subset
ScheduleSubset ==
    /\ pc = "built"
    /\ resolved.err = NoErr
    /\ LET s == topoSortLevels(resolved.needed, order)
       IN /\ levels' = s.levels
          /\ schedErr' = s.err
    /\ pc' = "scheduled"
    /\ UNCHANGED <<nodes, order, lvl, tasks, results, errCh, cache,
                   cacheFallible, cancellable, cfg, cancelled, runNo, cur, last, prev,
                   outsideEngine>>

NextResolve ==
    \/ \E ts \in TargetLists : ResolveSubgraph(ts)
    \/ Build
    \/ ScheduleSubset

SpecResolve == InitResolve /\ [][NextResolve]_vars

\* the identifiers reachable from the targets over dependsOn
Reachable == ReachIn(nodes, Range(targets), Cardinality(IDs))

\* C20: when resolution succeeds, the resolved subset is exactly the nodes
\* reachable from the targets over dependsOn, each with its catalog entry; it
\* is the same for every list of the same targets in another order or with
\* repetitions; and BuildFor resolves the same subset.
C20_ResolvedIsReachable ==
    /\ (pc \in {"resolved", "built"} /\ resolved.err = NoErr) =>
          /\ DOMAIN resolved.needed = Reachable
          /\ \A id \in Reachable : resolved.needed[id] = nodes[id]
          /\ \A ts \in TargetLists :
                Range(ts) = Range(targets) => resolveSubgraph(nodes, ts) = resolved
    /\ (pc = "built" /\ (resolved.err = NoErr \/ built.err = NoErr)) =>
          /\ built.err = NoErr /\ resolved.err = NoErr
          /\ DOMAIN built.needed = Reachable
          /\ built.needed = resolved.needed

C20_Witness ==
    /\ pc = "built" /\ resolved.err = NoErr
    /\ DOMAIN nodes = IDs
    /\ targets = <<"b", "b">>
    /\ nodes["b"].dependsOn = <<"a">> /\ nodes["a"].dependsOn = <<"a">>
    /\ nodes["c"].dependsOn = <<"b", "a">>
    /\ DOMAIN built.needed = {"a", "b"}

----------------------------------------------------------------------------
(* Concurrent callers: every request handler calls ExecuteFor, each call  *)
(* has its own engine, all share the registry and the default cache.      *)

\* cfg := &config{registry: Registry(), cache: defaultCache}
DefaultConfig == [cache |-> TRUE, ignoreCacheFor |-> {}]

SharedIdleTask(id) == [id |-> id, pc |-> "idle", snap |-> EmptyMap, num |-> 0,
                       val |-> Null, out |-> Null]

\* no call of the caller yet
IdleExec == [pc |-> "idle", nodes |-> EmptyMap, levels |-> <<>>, lvl |-> 0,
             tasks |-> <<>>, results |-> EmptyMap, errCh |-> <<>>,
             err |-> NoErr, returned |-> EmptyMap]

\* the registries of the callers: a node, cacheable or not, alone or with a
\* node that is not cacheable and depends on it
SharedInputs ==
    {[id \in DOMAIN h |-> NodeOf(id, h[id], "ok", id \in C)] :
        h \in {g \in DownShapes : \/ DOMAIN g = {"a"}
                                  \/ DOMAIN g = {"a", "b"} /\ g["b"] = <<"a">>},
        C \in {{}, {"a"}}}

InitShared ==
    /\ nodes \in SharedInputs
    /\ order = <<"a", "b", "c">>
    /\ cacheFallible = FALSE
    /\ cancellable = FALSE
    /\ pc = "serving"
    /\ levels = <<>> /\ schedErr = NoErr /\ lvl = 0 /\ tasks = <<>>
    /\ results = EmptyMap /\ errCh = <<>> /\ cache = EmptyMap
    /\ cfg = DefaultConfig /\ cancelled = FALSE /\ runNo = 0
    /\ cur = NewCur(EmptyMap) /\ last = NoRun /\ prev = NoRun
    /\ targets = <<>> /\ resolved = NoResolution /\ built = NoResolution
    /\ execs = [e \in 1..MaxExecs |-> IdleExec]
    /\ executionCount = NoCount
    /\ globalRegistry = EmptyMap
    /\ typeToID = EmptyMap
    /\ call = NoCall
    /\ obs = NoObs
    /\ lastOp = NoOps
    /\ mu = Unlocked

\* what the actions of the concurrent callers leave alone
sharedFrame == <<nodes, order, cacheFallible, cancellable, engineRun,
                 targets, resolved, built, globalRegistry, typeToID, call, obs, lastOp, mu>>

SetExec(e, x) == execs' = [execs EXCEPT ![e] = x]

SetSharedTask(e, k, i, t) == execs' = [execs EXCEPT ![e].tasks[k][i] = t]

\* the caller returns: (nil, err) or (engine.results, nil)
SharedReturn(x, err) ==
    [x EXCEPT !.pc = "returned", !.err = err,
              !.returned = IF err = NoErr THEN x.results ELSE EmptyMap]

\* a handler calls ExecuteFor: executeForIDs resolves the target, makes the
\* engine, and run sorts the levels; the callers are numbered as they call
Request(e, target) ==
    /\ execs[e].pc = "idle"
    /\ \A f \in 1..(e - 1) : execs[f].pc # "idle"
    /\ LET r == resolveSubgraph(nodes, <<target>>)
           s == topoSortLevels(r.needed, order)
       IN IF r.err # NoErr THEN SetExec(e, SharedReturn(execs[e], r.err))
          ELSE IF s.err # NoErr
          THEN SetExec(e, SharedReturn([execs[e] EXCEPT !.nodes = r.needed], s.err))
          ELSE SetExec(e, [execs[e] EXCEPT
                   !.pc = "top", !.nodes = r.needed, !.levels = s.levels, !.lvl = 1,
                   !.tasks = [k \in 1..Len(s.levels) |->
                               [i \in 1..Len(s.levels[k]) |->
                                  SharedIdleTask(GoroutineID(s.levels[k], i))]]])
    /\ UNCHANGED <<sharedFrame, cache, executionCount>>

\* top of the loop of run (the context of the request is not cancelled)
SharedLevelTop(e) ==
    LET x == execs[e] IN
    /\ x.pc = "top"
    /\ x.lvl <= Len(x.levels)
    /\ SetExec(e, [x EXCEPT !.pc = "wait", !.errCh = <<>>,
                            !.tasks[x.lvl] = [i \in 1..Len(@) |-> [@[i] EXCEPT !.pc = "spawned"]]])
    /\ UNCHANGED <<sharedFrame, cache, executionCount>>

SharedRunReturn(e) ==
    LET x == execs[e] IN
    /\ x.pc = "top"
    /\ x.lvl > Len(x.levels)
    /\ SetExec(e, SharedReturn(x, NoErr))
    /\ UNCHANGED <<sharedFrame, cache, executionCount>>

SharedLevelJoin(e) ==
    LET x == execs[e] IN
    /\ x.pc = "wait"
    /\ WaitDone(x.tasks[x.lvl])
    /\ IF x.errCh # <<>>
       THEN SetExec(e, SharedReturn(x, FirstError(x.errCh)))
       ELSE SetExec(e, [x EXCEPT !.pc = "top", !.lvl = @ + 1])
    /\ UNCHANGED <<sharedFrame, cache, executionCount>>

\* the goroutines of the engines of the callers
SharedTaskIdx ==
    {eki \in (1..MaxExecs) \X (1..Cardinality(IDs)) \X (1..Cardinality(IDs)) :
        /\ eki[2] <= Len(execs[eki[1]].tasks)
        /\ eki[3] <= Len(execs[eki[1]].tasks[eki[2]])}

SharedTask(e, k, i) == execs[e].tasks[k][i]

\* defaultCache.Get under the lock of the MemoryCache: a hit or a miss
SharedCacheGet(e, k, i) ==
    LET t == SharedTask(e, k, i) IN
    /\ t.pc = "spawned"
    /\ UseCache(nodes[t.id], DefaultConfig)
    /\ \/ /\ Has(cache, t.id)
          /\ SetSharedTask(e, k, i, [t EXCEPT !.pc = "hit", !.val = cache[t.id]])
       \/ /\ ~Has(cache, t.id)
          /\ SetSharedTask(e, k, i, [t EXCEPT !.pc = "miss"])
    /\ UNCHANGED <<sharedFrame, cache, executionCount>>

SharedStoreHit(e, k, i) ==
    LET t == SharedTask(e, k, i) IN
    /\ t.pc = "hit"
    /\ execs' = [execs EXCEPT ![e].results = Put(@, t.id, t.val),
                              ![e].tasks[k][i] = [t EXCEPT !.pc = "done"]]
    /\ UNCHANGED <<sharedFrame, cache, executionCount>>

\* the snapshot is taken and the function is called: num := executionCount.Add(1)
SharedInvoke(e, k, i) ==
    LET t == SharedTask(e, k, i) IN
    /\ AtRun(t, nodes[t.id], DefaultConfig)
    /\ executionCount' = Bump(executionCount, t.id)
    /\ SetSharedTask(e, k, i, [t EXCEPT !.pc = "running",
                                        !.snap = copyResults(execs[e].results),
                                        !.num = executionCount[t.id] + 1])
    /\ UNCHANGED <<sharedFrame, cache>>

\* the function returns Output{..., ExecutionNum: num}
SharedFnReturn(e, k, i) ==
    LET t == SharedTask(e, k, i) IN
    /\ t.pc = "running"
    /\ SetSharedTask(e, k, i, [t EXCEPT !.pc = "ran", !.out = t.num, !.snap = EmptyMap])
    /\ UNCHANGED <<sharedFrame, cache, executionCount>>

\* defaultCache.Set under the lock of the MemoryCache
SharedCacheSet(e, k, i) ==
    LET t == SharedTask(e, k, i) IN
    /\ AtSet(t)
    /\ UseCache(nodes[t.id], DefaultConfig)
    /\ cache' = Put(cache, t.id, SetValue(t))
    /\ SetSharedTask(e, k, i, [t EXCEPT !.pc = "set"])
    /\ UNCHANGED <<sharedFrame, executionCount>>

SharedStore(e, k, i) ==
    LET t == SharedTask(e, k, i) IN
    /\ \/ t.pc = "ran" /\ ~UseCache(nodes[t.id], DefaultConfig)
       \/ t.pc = "set"
    /\ execs' = [execs EXCEPT ![e].results = Put(@, t.id, t.out),
                              ![e].tasks[k][i] = [t EXCEPT !.pc = "done"]]
    /\ UNCHANGED <<sharedFrame, cache, executionCount>>

NextShared ==
    \/ \E e \in 1..MaxExecs, target \in DOMAIN nodes : Request(e, target)
    \/ \E e \in 1..MaxExecs : SharedLevelTop(e)
    \/ \E e \in 1..MaxExecs : SharedRunReturn(e)
    \/ \E e \in 1..MaxExecs : SharedLevelJoin(e)
    \/ \E eki \in SharedTaskIdx : SharedCacheGet(eki[1], eki[2], eki[3])
    \/ \E eki \in SharedTaskIdx : SharedStoreHit(eki[1], eki[2], eki[3])
    \/ \E eki \in SharedTaskIdx : SharedInvoke(eki[1], eki[2], eki[3])
    \/ \E eki \in SharedTaskIdx : SharedFnReturn(eki[1], eki[2], eki[3])
    \/ \E eki \in SharedTaskIdx : SharedCacheSet(eki[1], eki[2], eki[3])
    \/ \E eki \in SharedTaskIdx : SharedStore(eki[1], eki[2], eki[3])

SpecShared == InitShared /\ [][NextShared]_vars

\* C19: however many callers execute with the default cache, one after the
\* other or at the same time, the function of a cacheable node is called once
\* in total.
C19_CacheableCalledOnce ==
    \A id \in DOMAIN nodes : nodes[id].cacheable => executionCount[id] <= 1

----------------------------------------------------------------------------
(* Typed access: Dep and Result over the type index *)

\* the output types nodes are declared with
Types == {"A", "B", "C"}

\* the values a results map can hold
Vals == {1, 2}

\* an `any`: a value together with its dynamic type
Box(T, v) == [type |-> T, val |-> v]

NotRegisteredErr(T) == [kind |-> "not registered", id |-> "", dep |-> T]

NoResultsErr == [kind |-> "no results in context", id |-> "", dep |-> ""]

NotFoundErr(id) == [kind |-> "not found", id |-> id, dep |-> ""]

WrongTypeErr(id, T) == [kind |-> "wrong type", id |-> id, dep |-> T]

\* context.WithValue(ctx, resultsKey, r)
withResults(r) == [ok |-> TRUE, r |-> r]

\* a context that was not made by withResults
Background == [ok |-> FALSE, r |-> EmptyMap]

\* the context is looked at before the type index
DepContextFirst(T, index, ctx) ==
    IF ~ctx.ok THEN [val |-> Null, err |-> NoResultsErr]
    ELSE IF ~Has(index, T) THEN [val |-> Null, err |-> NotRegisteredErr(T)]
    ELSE IF ~Has(ctx.r, index[T]) THEN [val |-> Null, err |-> NotFoundErr(index[T])]
    ELSE IF ctx.r[index[T]].type # T THEN [val |-> Null, err |-> WrongTypeErr(index[T], T)]
    ELSE [val |-> ctx.r[index[T]].val, err |-> NoErr]

\* Dep[T](ctx): typeToID, getResults, r[id], val.(T)
Dep(T, index, ctx) ==
    IF ~Has(index, T) THEN [val |-> Null, err |-> NotRegisteredErr(T)]
    ELSE IF ~ctx.ok THEN [val |-> Null, err |-> NoResultsErr]
    ELSE IF ~Has(ctx.r, index[T]) THEN [val |-> Null, err |-> NotFoundErr(index[T])]
    ELSE IF ctx.r[index[T]].type # T THEN [val |-> Null, err |-> WrongTypeErr(index[T], T)]
    ELSE [val |-> ctx.r[index[T]].val, err |-> NoErr]

\* Result[T](r): typeToID, r[id], val.(T)
Result(T, index, r) ==
    IF ~Has(index, T) THEN [val |-> Null, err |-> NotRegisteredErr(T)]
    ELSE IF ~Has(r, index[T]) THEN [val |-> Null, err |-> NotFoundErr(index[T])]
    ELSE IF r[index[T]].type # T THEN [val |-> Null, err |-> WrongTypeErr(index[T], T)]
    ELSE [val |-> r[index[T]].val, err |-> NoErr]

\* the type indexes Register can build: no identifier is registered twice, so
\* no two types have the same identifier
TypeIndexes ==
    {x \in UNION {[S -> IDs] : S \in SUBSET Types} :
        \A T, U \in DOMAIN x : x[T] = x[U] => T = U}

\* the results maps: any identifiers, each with a value of any dynamic type
ResultMaps == UNION {[S -> {Box(T, v) : T \in Types, v \in Vals}] : S \in SUBSET IDs}

Contexts == {Background} \cup {withResults(r) : r \in ResultMaps}

InitLookup ==
    /\ nodes = EmptyMap
    /\ order = <<"a", "b", "c">>
    /\ cacheFallible = FALSE
    /\ cancellable = FALSE
    /\ pc = "lookup"
    /\ InitIdle
    /\ cache = EmptyMap
    /\ runNo = 0
    /\ globalRegistry = EmptyMap
    /\ typeToID \in TypeIndexes
    /\ call = NoCall
    /\ obs = NoObs
    /\ lastOp = NoOps
    /\ mu = Unlocked

\* what the typed lookups leave alone
lookupFrame == <<nodes, order, levels, schedErr, lvl, tasks, results, errCh, cfg,
                 cancelled, runNo, cur, last, prev, cacheFallible, cancellable,
                 cache, targets, resolved, built, execs, executionCount,
                 globalRegistry, typeToID, call, lastOp, mu>>

\* a call of Dep[T](ctx)
CallDep(T, ctx) ==
    /\ pc = "lookup"
    /\ obs' = [op |-> "Dep", type |-> T, ctx |-> ctx, ret |-> Dep(T, typeToID, ctx)]
    /\ pc' = "looked up"
    /\ UNCHANGED lookupFrame

\* a call of Result[T](r)
CallResult(T, r) ==
    /\ pc = "lookup"
    /\ obs' = [op |-> "Result", type |-> T, ctx |-> withResults(r),
               ret |-> Result(T, typeToID, r)]
    /\ pc' = "looked up"
    /\ UNCHANGED lookupFrame

NextLookup ==
    \/ \E T \in Types, ctx \in Contexts : CallDep(T, ctx)
    \/ \E T \in Types, r \in ResultMaps : CallResult(T, r)

SpecLookup == InitLookup /\ [][NextLookup]_vars

\* the error kind the checks of a typed lookup give, in their order
LookupKind(T, ctx, withContext) ==
    IF ~Has(typeToID, T) THEN "not registered"
    ELSE IF withContext /\ ~ctx.ok THEN "no results in context"
    ELSE IF ~Has(ctx.r, typeToID[T]) THEN "not found"
    ELSE IF ctx.r[typeToID[T]].type # T THEN "wrong type"
    ELSE "nil"

\* C25: Dep[T] returns the value the snapshot holds for T's identifier exactly
\* when T is in the type index, the context carries a snapshot, the snapshot
\* has an entry for the identifier and the entry's dynamic type is T; otherwise
\* it returns the error of the first of these checks that fails, in this
\* order.  Result[T] does the same on a results map, without the context check.
C25_TypedLookup ==
    obs.op \in {"Dep", "Result"} =>
        LET kind == LookupKind(obs.type, obs.ctx, obs.op = "Dep")
        IN /\ obs.ret.err.kind = kind
           /\ kind = "nil" => obs.ret.val = obs.ctx.r[typeToID[obs.type]].val
           /\ kind # "nil" => obs.ret.val = Null

C25_Witness ==
    /\ obs.op = "Dep"
    /\ obs.ret.err = NoErr /\ obs.ret.val = 2
    /\ DOMAIN obs.ctx.r = IDs
    /\ \E id \in IDs : obs.ctx.r[id].type # obs.type

----------------------------------------------------------------------------
(* Typed access inside a node's function *)

\* the output type of the node registered with each identifier:
\* Register(Node[A]{ID: "a"}), Register(Node[B]{ID: "b"}), ...
TypeOf == [id \in IDs |-> CASE id = "a" -> "A" [] id = "b" -> "B" [] OTHER -> "C"]

\* the type index after the nodes of ns were registered
IndexOf(ns) ==
    [T \in {TypeOf[id] : id \in DOMAIN ns} |-> CHOOSE id \in DOMAIN ns : TypeOf[id] = T]

\* a results map of the engine: each output has the type of its node
Boxed(m) == [id \in DOMAIN m |-> Box(TypeOf[id], m[id])]

\* what Dep[T](ctx) returns to the function of task t
DepInside(t, T) == Dep(T, IndexOf(nodes), withResults(Boxed(t.snap)))

\* C26: inside a node's function, Dep[T] fails with dependency-not-found
\* whenever the node that produces T is not in the DependsOn list of the node.
C26_UndeclaredNotFound ==
    \A ki \in TaskIdx :
        LET t == Task(ki[1], ki[2]) IN
        t.pc = "running" =>
            \A T \in DOMAIN IndexOf(nodes) :
                IndexOf(nodes)[T] \notin DepSet(nodes, t.id) =>
                    DepInside(t, T).err = NotFoundErr(IndexOf(nodes)[T])

----------------------------------------------------------------------------
(* Failed tasks *)

\* the level of the run that returned last in which id was scheduled
LastLevelOf(id) == CHOOSE k \in 1..Len(last.levels) : id \in Range(last.levels[k])

\* C30: a task that failed (its function returned an error, the cache Get
\* failed, or the cache Set failed after the function had returned an output)
\* never stores an entry in the results map of its run, and the run fails at
\* that level whichever of the three it was: it does not go to the next level,
\* it returns the wrapped error and no results, no function of a later level
\* is called, and a failed cache Set leaves the cache without the output.
C30_FailedTaskNoResult ==
    /\ \A ki \in TaskIdx :
          Task(ki[1], ki[2]).pc = "failed" =>
              /\ ~Has(results, Task(ki[1], ki[2]).id)
              /\ pc = "wait" /\ lvl = ki[1]
              /\ ErrOf(Task(ki[1], ki[2])) \in Range(errCh)
    /\ (Done /\ last.err.kind \in {"node", "cache get", "cache set"}) =>
          /\ ~Has(last.committed, last.err.id)
          /\ last.returned = EmptyMap
          /\ \A id \in DOMAIN nodes :
                LastLevelOf(id) > LastLevelOf(last.err.id) =>
                    last.calls[id] = 0 /\ ~Has(last.committed, id)
          /\ last.err.kind = "cache get" => last.calls[last.err.id] = 0
          /\ last.err.kind = "cache set" =>
                /\ last.outs[last.err.id] # Null
                /\ Has(last.cacheAtEnd, last.err.id) =>
                      last.cacheAtEnd[last.err.id] # last.outs[last.err.id]
          /\ last.err.kind = "node" =>
                last.calls[last.err.id] = 1 /\ last.outs[last.err.id] = Null

C30_Witness ==
    /\ Done /\ last.err = CacheSetErr("a")
    /\ Len(last.levels) = 2 /\ Range(last.levels[1]) = {"a", "b"}
    /\ last.outs["a"] # Null
    /\ DOMAIN last.committed = {"b"}
    /\ last.calls["c"] = 0

----------------------------------------------------------------------------
(* The global registry, the type index and the default cache *)

\* delete(m, k)
Remove(m, k) == [x \in DOMAIN m \ {k} |-> m[x]]

\* a registration never finds the identifier
ExistsNever(reg, id) == FALSE

\* _, exists := registry[n.ID]
Exists(reg, id) == Has(reg, id)

\* the type index is left as it is
ClearIndexKept(index) == index

\* for k := range typeToID { delete(typeToID, k) }
ClearIndex(index) == EmptyMap

\* m.store = make(map[ID]any)
MemClear(store) == EmptyMap

InitRegistry ==
    /\ nodes = EmptyMap
    /\ order = <<"a", "b", "c">>
    /\ cacheFallible = FALSE
    /\ cancellable = FALSE
    /\ pc = "registry"
    /\ InitCommon

\* what the calls of the registry API leave alone
registryFrame == <<nodes, order, pc, levels, schedErr, lvl, tasks, results, errCh,
                   cfg, cancelled, runNo, cur, last, prev, cacheFallible,
                   cancellable, targets, resolved, built, execs, executionCount,
                   call, lastOp, mu>>

\* Register(Node[T]{ID: id, Cacheable: c}); a panic is recovered by the caller
Register(T, id, c) ==
    /\ pc = "registry"
    /\ IF Exists(globalRegistry, id)
       THEN /\ obs' = [op |-> "Register", id |-> id, type |-> T, panicked |-> TRUE]
            /\ UNCHANGED <<globalRegistry, typeToID>>
       ELSE /\ globalRegistry' = Put(globalRegistry, id, NodeOf(id, <<>>, "ok", c))
            /\ typeToID' = Put(typeToID, T, id)
            /\ obs' = [op |-> "Register", id |-> id, type |-> T, panicked |-> FALSE]
    /\ UNCHANGED <<registryFrame, cache>>

\* ResetRegistry(): every key of both maps is deleted
ResetRegistry ==
    /\ pc = "registry"
    /\ globalRegistry' = EmptyMap
    /\ typeToID' = ClearIndex(typeToID)
    /\ obs' = [op |-> "ResetRegistry", cleared |-> Cardinality(DOMAIN globalRegistry)]
    /\ UNCHANGED <<registryFrame, cache>>

\* an execution stores the output of a cacheable node in the default cache
DefaultCacheSet(id) ==
    /\ pc = "registry"
    /\ Has(globalRegistry, id) /\ globalRegistry[id].cacheable
    /\ cache' = Put(cache, id, 1)
    /\ obs' = [op |-> "Set", id |-> id]
    /\ UNCHANGED <<registryFrame, globalRegistry, typeToID>>

\* ResetDefaultCache(): defaultCache.Clear()
ResetDefaultCache ==
    /\ pc = "registry"
    /\ cache' = MemClear(cache)
    /\ obs' = [op |-> "ResetDefaultCache", cleared |-> Cardinality(DOMAIN cache)]
    /\ UNCHANGED <<registryFrame, globalRegistry, typeToID>>

NextRegistry ==
    \/ \E T \in Types, id \in IDs, c \in BOOLEAN : Register(T, id, c)
    \/ ResetRegistry
    \/ \E id \in IDs : DefaultCacheSet(id)
    \/ ResetDefaultCache

SpecRegistry == InitRegistry /\ [][NextRegistry]_vars

\* C23: a Register call whose identifier is already in the registry panics and
\* leaves the registry and the type index as they were; and the registry never
\* holds two nodes with one identifier: the node stored under an identifier
\* has that identifier.
C23_DuplicateRegistration ==
    /\ [][(obs'.op = "Register" /\ Has(globalRegistry, obs'.id)) =>
             /\ obs'.panicked
             /\ globalRegistry' = globalRegistry
             /\ typeToID' = typeToID]_vars
    /\ [](\A id \in DOMAIN globalRegistry : globalRegistry[id].id = id)

C23_Witness ==
    /\ obs.op = "Register" /\ obs.panicked
    /\ obs.id = "a" /\ obs.type = "B"
    /\ globalRegistry["a"].cacheable
    /\ typeToID = [T \in {"A"} |-> "a"]

\* C24: when ResetRegistry has returned, the registry and the type index are
\* empty: Dep, Result and the lookup of ExecuteFor fail with not-registered for
\* every type and no identifier makes Register panic; the default cache is not
\* touched by it.  When ResetDefaultCache has returned, the default cache
\* holds no entry.
C24_ResetEmpties ==
    /\ obs.op = "ResetRegistry" =>
          /\ globalRegistry = EmptyMap
          /\ typeToID = EmptyMap
          /\ \A T \in Types :
                /\ \A ctx \in {Background, withResults(Boxed(cache))} :
                      Dep(T, typeToID, ctx).err = NotRegisteredErr(T)
                /\ Result(T, typeToID, Boxed(cache)).err = NotRegisteredErr(T)
          /\ \A id \in IDs : ~Exists(globalRegistry, id)
    /\ obs.op = "ResetDefaultCache" =>
          /\ cache = EmptyMap
          /\ \A id \in IDs : ~Has(cache, id)

C24_Witness ==
    /\ obs.op = "ResetRegistry" /\ obs.cleared = 3
    /\ DOMAIN cache = {"a", "b"}

\* the default cache held entries when ResetDefaultCache was called
C24_CacheWitness ==
    /\ obs.op = "ResetDefaultCache" /\ obs.cleared = 2
    /\ DOMAIN typeToID = Types

----------------------------------------------------------------------------
(* MemoryCache *)

\* val, ok := m.store[id]; return val, ok, nil
MemGet(store, id) ==
    IF Has(store, id) THEN [val |-> store[id], found |-> TRUE, err |-> NoErr]
    ELSE [val |-> Null, found |-> FALSE, err |-> NoErr]

\* m.store[id] = value
MemSet(store, id, v) == Put(store, id, v)

\* for _, id := range ids { delete(m.store, id) }
RECURSIVE MemDelete(_, _)
MemDelete(store, ids) ==
    IF ids = <<>> THEN store ELSE MemDelete(Remove(store, Head(ids)), Tail(ids))

\* the map handed out is m.store itself
MemSnapshotShared(store) == [m |-> store, shared |-> TRUE, modified |-> FALSE]

\* cp := make(map[ID]any, len(m.store)); for k, v := range m.store { cp[k] = v }
MemSnapshot(store) == [m |-> copyResults(store), shared |-> FALSE, modified |-> FALSE]

InitCache ==
    /\ nodes = EmptyMap
    /\ order = <<"a", "b", "c">>
    /\ cacheFallible = FALSE
    /\ cancellable = FALSE
    /\ pc = "cache"
    /\ InitCommon

\* what the calls of the MemoryCache API leave alone
cacheFrame == <<nodes, order, pc, levels, schedErr, lvl, tasks, results, errCh,
                cfg, cancelled, runNo, cur, last, prev, cacheFallible,
                cancellable, targets, resolved, built, execs, executionCount,
                globalRegistry, typeToID, call, mu>>

\* m.Set(ctx, id, v)
Set(id, v) ==
    /\ pc = "cache"
    /\ cache' = MemSet(cache, id, v)
    /\ lastOp' = [lastOp EXCEPT ![id] = <<"Set", v>>]
    /\ obs' = [op |-> "Set"]
    /\ UNCHANGED cacheFrame

\* m.Delete(ids...)
Delete(ids) ==
    /\ pc = "cache"
    /\ cache' = MemDelete(cache, ids)
    /\ lastOp' = [id \in IDs |-> IF id \in Range(ids) THEN <<"Delete", Null>>
                                 ELSE lastOp[id]]
    /\ obs' = [op |-> "Delete"]
    /\ UNCHANGED cacheFrame

\* m.Clear()
Clear ==
    /\ pc = "cache"
    /\ cache' = MemClear(cache)
    /\ lastOp' = [id \in IDs |-> <<"Clear", Null>>]
    /\ obs' = [op |-> "Clear"]
    /\ UNCHANGED cacheFrame

\* m.Get(ctx, id)
Get(id) ==
    /\ pc = "cache"
    /\ obs' = [op |-> "Get", id |-> id, ret |-> MemGet(cache, id)]
    /\ UNCHANGED <<cacheFrame, cache, lastOp>>

\* m.Snapshot()
Snapshot ==
    /\ pc = "cache"
    /\ obs' = [op |-> "Snapshot", ret |-> MemSnapshot(cache)]
    /\ UNCHANGED <<cacheFrame, cache, lastOp>>

\* the caller writes an entry of the map Snapshot returned; when that map is
\* the store of the cache, the store has the entry too
ModifySnapshot(id, v) ==
    /\ pc = "cache"
    /\ obs.op = "Snapshot"
    /\ obs' = [obs EXCEPT !.ret.m = Put(@, id, v), !.ret.modified = TRUE]
    /\ cache' = IF obs.ret.shared THEN Put(cache, id, v) ELSE cache
    /\ UNCHANGED <<cacheFrame, lastOp>>

NextCache ==
    \/ \E id \in IDs, v \in Vals : Set(id, v)
    \/ \E ids \in SeqsUpTo(IDs, MaxDeleted) : Delete(ids)
    \/ Clear
    \/ \E id \in IDs : Get(id)
    \/ Snapshot
    \/ \E id \in IDs, v \in Vals : ModifySnapshot(id, v)

SpecCache == InitCache /\ [][NextCache]_vars

\* what a keyed map returns for id after the calls so far
KeyedGet(id) ==
    IF lastOp[id][1] = "Set"
    THEN [val |-> lastOp[id][2], found |-> TRUE, err |-> NoErr]
    ELSE [val |-> Null, found |-> FALSE, err |-> NoErr]

\* C29: after any sequence of Set, Delete, Clear, Get and Snapshot calls, Get
\* of an identifier reports found with the value of the last Set of that
\* identifier when no Delete of it and no Clear came after that Set, and
\* (nil, not found, no error) otherwise; Snapshot returns the entries of the
\* cache, and writing to the map it returned does not change what Get reports.
C29_MemoryCacheIsKeyedMap ==
    /\ \A id \in IDs : MemGet(cache, id) = KeyedGet(id)
    /\ obs.op = "Get" => obs.ret = KeyedGet(obs.id)
    /\ (obs.op = "Snapshot" /\ ~obs.ret.modified) =>
          /\ DOMAIN obs.ret.m = {id \in IDs : KeyedGet(id).found}
          /\ \A id \in DOMAIN obs.ret.m : obs.ret.m[id] = KeyedGet(id).val

C29_Witness ==
    /\ obs.op = "Snapshot" /\ obs.ret.modified
    /\ DOMAIN obs.ret.m = IDs /\ obs.ret.m["a"] = 2
    /\ DOMAIN cache = {"a"} /\ cache["a"] = 1
    /\ lastOp["b"][1] = "Delete" /\ lastOp["c"][1] = "Clear"

----------------------------------------------------------------------------
(* Execute and ExecuteFor with options: WithRegistry, PatchValue, Patch *)

\* the value given to PatchValue
PatchedVal == 9

\* the registry given to WithRegistry: a node a with a function of its own
CustomRegistry == [id \in {"a"} |-> NodeOf(id, <<>>, "custom", FALSE)]

\* the options: PatchValue[T](PatchedVal), Patch[T](Node[T]{DependsOn, Run,
\* Cacheable}) for the types of a and b, WithRegistry(CustomRegistry)
Options ==
    {[kind |-> "PatchValue", type |-> T, dependsOn |-> <<>>, cacheable |-> FALSE] :
        T \in Types}
    \cup {[kind |-> "Patch", type |-> "A", dependsOn |-> <<>>, cacheable |-> c] :
        c \in BOOLEAN}
    \cup {[kind |-> "Patch", type |-> "B", dependsOn |-> <<"a">>, cacheable |-> c] :
        c \in BOOLEAN}
    \cup {[kind |-> "WithRegistry", type |-> "", dependsOn |-> <<>>, cacheable |-> FALSE]}

OptionLists == SeqsUpTo(Options, MaxOpts)

\* the node PatchValue stores: no dependencies, not cacheable, returns value
ValueNode(id, v) ==
    [id |-> id, dependsOn |-> <<>>, run |-> "value", cacheable |-> FALSE, value |-> v]

\* PatchValue does nothing
PatchValueIgnored(reg, index, o) == reg

\* PatchValue[T](value)(c)
PatchValue(reg, index, o) ==
    IF ~Has(index, o.type) THEN reg
    ELSE Put(reg, index[o.type], ValueNode(index[o.type], PatchedVal))

\* Patch[T](n)(c)
Patch(reg, index, o) ==
    IF ~Has(index, o.type) THEN reg
    ELSE Put(reg, index[o.type],
             NodeOf(index[o.type], o.dependsOn, "patched", o.cacheable))

\* c.registry[id] = node{...}: the write goes into the map c.registry refers
\* to, which is the caller's map once WithRegistry has assigned it
Patched(c, reg) ==
    [c EXCEPT !.registry = reg, !.custom = IF c.aliased THEN reg ELSE @]

\* WithRegistry(registry)(c): c.registry = registry, the caller's map itself
WithRegistry(c) == [c EXCEPT !.registry = c.custom, !.aliased = TRUE]

\* opt(cfg); c.custom is the map the caller hands to WithRegistry
ApplyOpt(c, index, o) ==
    CASE o.kind = "WithRegistry" -> WithRegistry(c)
      [] o.kind = "PatchValue" -> Patched(c, PatchValue(c.registry, index, o))
      [] OTHER -> Patched(c, Patch(c.registry, index, o))

\* for _, opt := range opts { opt(cfg) }
RECURSIVE ApplyEach(_, _, _)
ApplyEach(c, index, opts) ==
    IF opts = <<>> THEN c
    ELSE ApplyEach(ApplyOpt(c, index, Head(opts)), index, Tail(opts))

\* cfg := &config{registry: Registry(), ...} and the options applied to it
Configure(reg, index, opts) ==
    ApplyEach([registry |-> reg, custom |-> CustomRegistry, aliased |-> FALSE],
              index, opts)

\* cfg.registry when the options have been applied
ApplyOpts(reg, index, opts) == Configure(reg, index, opts).registry

\* the caller's map when the options have been applied
CallerRegistry(reg, index, opts) == Configure(reg, index, opts).custom

\* the global registries: a, b that depends on a, and c, one of a and b
\* cacheable or none; and a with b that depends on c, which is not registered
TypedRegistries ==
    {[id \in IDs |-> NodeOf(id, IF id = "b" THEN <<"a">> ELSE <<>>, "ok", id \in C)] :
        C \in {{}, {"a"}, {"b"}}}
    \cup {[id \in {"a", "b"} |-> NodeOf(id, IF id = "b" THEN <<"c">> ELSE <<>>, "ok", FALSE)]}

\* the registry after its Register calls; the default cache is empty, or an
\* earlier execution (number 1) has stored the outputs of the cacheable nodes
InitTyped ==
    /\ globalRegistry \in TypedRegistries
    /\ typeToID = IndexOf(globalRegistry)
    /\ runNo \in {0, 1}
    /\ runNo = 1 => Cacheables(globalRegistry) # {}
    /\ cache = IF runNo = 1
               THEN [id \in Cacheables(globalRegistry) |-> 1]
               ELSE EmptyMap
    /\ nodes = EmptyMap
    /\ order = <<"a", "b", "c">>
    /\ cacheFallible = FALSE
    /\ cancellable = FALSE
    /\ pc = "idle"
    /\ InitIdle
    /\ call = NoCall
    /\ obs = NoObs
    /\ lastOp = NoOps
    /\ mu = Unlocked


\* what the calls of Execute and ExecuteFor leave alone
typedFrame == <<order, cache, cacheFallible, cancellable, targets, resolved, built,
                execs, executionCount, globalRegistry, typeToID, obs, lastOp, mu>>

\* the call begins: execution number runNo + 1, a context that is not cancelled
BeginCall(c) ==
    /\ pc = "idle"
    /\ call = NoCall
    /\ call' = c
    /\ runNo' = runNo + 1
    /\ cfg' = DefaultConfig
    /\ cancelled' = FALSE
    /\ prev' = last
    /\ results' = EmptyMap
    /\ errCh' = <<>>
    /\ UNCHANGED typedFrame

\* return nil, err before an engine exists
FailCall(err) ==
    /\ nodes' = EmptyMap
    /\ schedErr' = NoErr
    /\ last' = Outcome(runNo + 1, DefaultConfig, err, EmptyMap, NewCur(cache), cache)
    /\ cur' = NewCur(EmptyMap)
    /\ pc' = "idle"
    /\ UNCHANGED <<levels, lvl, tasks>>

\* engine := newEngine(ns, cfg) and the topoSortLevels call of engine.run
StartEngine(ns) ==
    /\ nodes' = ns
    /\ LET s == topoSortLevels(ns, order)
       IN /\ schedErr' = s.err
          /\ IF s.err # NoErr
             THEN /\ last' = Outcome(runNo + 1, DefaultConfig, s.err, EmptyMap,
                                     NewCur(cache), cache)
                  /\ cur' = NewCur(EmptyMap)
                  /\ pc' = "idle"
                  /\ UNCHANGED <<levels, lvl, tasks>>
             ELSE /\ levels' = s.levels
                  /\ lvl' = 1
                  /\ tasks' = [k \in 1..Len(s.levels) |->
                                 [i \in 1..Len(s.levels[k]) |->
                                    IdleTask(GoroutineID(s.levels[k], i))]]
                  /\ last' = NoRun
                  /\ cur' = NewCur(cache)
                  /\ pc' = "top"

\* the engine is made from the whole registry of the config
EngineNodesRegistry(reg, needed) == reg

\* engine := newEngine(nodes, cfg) with the nodes resolveSubgraph returned
EngineNodes(reg, needed) == needed

\* executeForIDs: the config, resolveSubgraph(cfg.registry, targets), the engine
executeForIDs(reg, ts) ==
    LET r == resolveSubgraph(reg, ts)
    IN IF r.err # NoErr THEN FailCall(r.err)
       ELSE StartEngine(EngineNodes(reg, r.needed))

\* Execute(ctx, opts...)
ExecuteWith(opts) ==
    LET reg == ApplyOpts(globalRegistry, typeToID, opts) IN
    /\ BeginCall([NoCall EXCEPT !.kind = "Execute", !.opts = opts, !.registry = reg,
                                !.custom = CallerRegistry(globalRegistry, typeToID, opts)])
    /\ StartEngine(reg)

\* ExecuteFor[T](ctx, opts...) up to the call of run
ExecuteFor(T, opts) ==
    IF ~Has(typeToID, T)
    THEN /\ BeginCall([NoCall EXCEPT !.kind = "ExecuteFor", !.type = T, !.opts = opts,
                                     !.custom = CustomRegistry])
         /\ FailCall(NotRegisteredErr(T))
    ELSE LET reg == ApplyOpts(globalRegistry, typeToID, opts) IN
         /\ BeginCall([NoCall EXCEPT !.kind = "ExecuteFor", !.type = T, !.opts = opts,
                                     !.targets = <<typeToID[T]>>, !.registry = reg,
                                     !.custom = CallerRegistry(globalRegistry, typeToID, opts)])
         /\ executeForIDs(reg, <<typeToID[T]>>)

\* executeForIDs(ctx, targets) called without options
ExecuteForIDs(ts) ==
    /\ BeginCall([NoCall EXCEPT !.kind = "executeForIDs", !.targets = ts,
                                !.registry = globalRegistry, !.custom = CustomRegistry])
    /\ executeForIDs(globalRegistry, ts)

\* the end of ExecuteFor: return zero, nil, err or Result[T](results), results
ExecuteForReturn ==
    /\ pc = "idle"
    /\ call.kind = "ExecuteFor"
    /\ ~call.returned
    /\ LET r == Result(call.type, typeToID, Boxed(last.returned))
       IN call' = [call EXCEPT !.returned = TRUE,
                               !.err = IF last.err # NoErr THEN last.err ELSE r.err,
                               !.val = IF last.err # NoErr THEN Null ELSE r.val]
    /\ UNCHANGED <<nodes, order, pc, levels, schedErr, lvl, tasks, results, errCh,
                   cache, cacheFallible, cancellable, cfg, cancelled, runNo, cur,
                   last, prev, targets, resolved, built, execs, executionCount,
                   globalRegistry, typeToID, obs, lastOp, mu>>

\* no call has been made yet
NotCalled == pc = "idle" /\ call = NoCall

NextTyped ==
    \/ NotCalled /\ \E opts \in OptionLists : ExecuteWith(opts)
    \/ NotCalled /\ \E T \in Types, opts \in OptionLists : ExecuteFor(T, opts)
    \/ NotCalled /\ \E ts \in TargetLists : ExecuteForIDs(ts)
    \/ ExecuteForReturn
    \/ LevelTop
    \/ RunReturn
    \/ LevelJoin
    \/ \E ki \in TaskIdx : CacheGet(ki[1], ki[2])
    \/ \E ki \in TaskIdx : StoreHit(ki[1], ki[2])
    \/ \E ki \in TaskIdx : Invoke(ki[1], ki[2])
    \/ \E ki \in TaskIdx : FnReturn(ki[1], ki[2])
    \/ \E ki \in TaskIdx : CacheSet(ki[1], ki[2])
    \/ \E ki \in TaskIdx : Store(ki[1], ki[2])

SpecTyped == InitTyped /\ [][NextTyped]_vars


\* the identifiers reachable over dependsOn from the targets of the call, in
\* the registry of its config
CallReach == ReachIn(call.registry, Range(call.targets), Cardinality(IDs))

\* the reachable identifiers that are not in the registry of the config
Missing == CallReach \ DOMAIN call.registry

\* the call went through executeForIDs
Resolving == call.kind = "executeForIDs" \/ (call.kind = "ExecuteFor" /\ call.targets # <<>>)

\* C21: when a target or an identifier reached from the targets over dependsOn
\* is not in the registry of the config, the call fails with the unknown-node
\* error naming such an identifier, no subset is made into an engine, nothing
\* is returned, and no function is called and the cache is not touched; when
\* no such identifier is missing, the call does not fail with unknown-node.
C21_UnknownNodeRejected ==
    Resolving =>
        /\ Missing # {} =>
              /\ pc = "idle" /\ last.run = runNo
              /\ last.err.kind = "unknown node" /\ last.err.id \in Missing
              /\ nodes = EmptyMap /\ tasks = <<>> /\ levels = <<>>
              /\ last.returned = EmptyMap /\ last.committed = EmptyMap
              /\ last.calls = NoCount /\ last.fns = {} /\ CacheUntouched
              /\ call.returned => (call.err = last.err /\ call.val = Null)
        /\ Missing = {} => last.err.kind # "unknown node"

C21_Witness ==
    /\ call.kind = "executeForIDs" /\ call.targets = <<"a", "b">>
    /\ last.err = UnknownNodeErr("c")
    /\ Has(call.registry, "a") /\ Has(call.registry, "b")

\* the target itself is missing from a custom registry
C21_TargetWitness ==
    /\ call.kind = "ExecuteFor" /\ call.type = "B" /\ call.returned
    /\ call.err = UnknownNodeErr("b")
    /\ call.registry = CustomRegistry


\* the identifiers whose function was called or whose cache entry was read or
\* written by the call
Touched ==
    {id \in IDs : \/ cur.calls[id] + cur.gets[id] + cur.sets[id] > 0
                  \/ last.calls[id] > 0
                  \/ \E f \in cur.fns \cup last.fns : f[1] = id}

\* C22: ExecuteFor[T] with T in the type index gives tasks only to the node of
\* T and the nodes reachable from it over dependsOn in the registry of its
\* config, and calls no function and reads no cache entry of another node; when
\* it succeeds the keys of the results map are exactly those nodes and the
\* typed value is the entry of the node of T.  With T not in the type index it
\* fails with the not-registered error and nothing is scheduled or called.
C22_ExecuteForClosure ==
    call.kind = "ExecuteFor" =>
        /\ Has(typeToID, call.type) =>
              /\ Touched \subseteq CallReach
              /\ \A ki \in TaskIdx : Task(ki[1], ki[2]).id \in CallReach
              /\ DOMAIN results \subseteq CallReach
              /\ (call.returned /\ call.err = NoErr) =>
                    /\ last.err = NoErr
                    /\ DOMAIN last.returned = CallReach
                    /\ call.val = last.returned[typeToID[call.type]]
                    /\ call.val # Null
              /\ (call.returned /\ call.err # NoErr) => call.val = Null
        /\ ~Has(typeToID, call.type) =>
              /\ pc = "idle" /\ last.run = runNo
              /\ last.err = NotRegisteredErr(call.type)
              /\ nodes = EmptyMap /\ tasks = <<>>
              /\ Touched = {} /\ CacheUntouched
              /\ call.returned => (call.err = last.err /\ call.val = Null)

C22_Witness ==
    /\ call.kind = "ExecuteFor" /\ call.type = "B" /\ call.opts = <<>>
    /\ call.returned /\ call.err = NoErr
    /\ DOMAIN globalRegistry = IDs
    /\ DOMAIN last.returned = {"a", "b"}
    /\ last.run = 2 /\ last.calls["a"] = 0 /\ last.calls["b"] = 1
    /\ call.val = 2

\* ExecuteFor of a type that is not registered
C22_NotRegisteredWitness ==
    /\ call.kind = "ExecuteFor" /\ call.type = "C" /\ call.returned
    /\ call.err = NotRegisteredErr("C")
    /\ Len(call.opts) = MaxOpts


\* the positions of the options of the call that are PatchValue or Patch
\* (kind) for a type of the type index
PatchesOf(kind) ==
    {i \in 1..Len(call.opts) : call.opts[i].kind = kind /\ Has(typeToID, call.opts[i].type)}

\* no option after position i replaces the registry or patches the same type
Effective(i) ==
    \A j \in (i + 1)..Len(call.opts) :
        call.opts[j].kind # "WithRegistry" /\ call.opts[j].type # call.opts[i].type

\* the functions called by the call so far
CalledFns == cur.fns \cup last.fns

\* the function the global registry has for id was called
OriginalCalled(id) == Has(globalRegistry, id) /\ <<id, globalRegistry[id].run>> \in CalledFns

\* the list opts without its i-th option
Without(opts, i) == SubSeq(opts, 1, i - 1) \o SubSeq(opts, i + 1, Len(opts))

\* a call whose config was built from its options
Configured == call.kind = "Execute" \/ (call.kind = "ExecuteFor" /\ call.targets # <<>>)

\* C27 as stated: whenever PatchValue[T](v) with T registered is among the
\* options, the result of the node of T is v, the registered function of the
\* node is never called and the node of the config has no dependencies.
C27_PatchValue ==
    Configured =>
        \A i \in PatchesOf("PatchValue") :
            LET id == typeToID[call.opts[i].type] IN
            /\ Has(call.registry, id) /\ call.registry[id].dependsOn = <<>>
            /\ ~OriginalCalled(id)
            /\ Has(last.returned, id) => last.returned[id] = PatchedVal

\* C27, amended: the same for a PatchValue[T](v) that no later option of the
\* call overrides (no WithRegistry and no patch of T after it); and a
\* PatchValue of a type that is not in the type index changes nothing: the
\* config is the one the other options give.
C27_PatchValueEffective ==
    Configured =>
        /\ \A i \in PatchesOf("PatchValue") :
              Effective(i) =>
                  LET id == typeToID[call.opts[i].type] IN
                  /\ Has(call.registry, id) /\ call.registry[id].dependsOn = <<>>
                  /\ ~call.registry[id].cacheable
                  /\ ~OriginalCalled(id)
                  /\ \A f \in CalledFns : f[1] = id => f[2] = "value"
                  /\ cur.gets[id] + cur.sets[id] = 0
                  /\ Has(results, id) => results[id] = PatchedVal
                  /\ Has(last.returned, id) => last.returned[id] = PatchedVal
                  /\ (last.run = runNo /\ last.err = NoErr /\ call.kind = "Execute") =>
                        Has(last.returned, id)
        /\ \A i \in 1..Len(call.opts) :
              (call.opts[i].kind = "PatchValue" /\ ~Has(typeToID, call.opts[i].type)) =>
                  call.registry = ApplyOpts(globalRegistry, typeToID, Without(call.opts, i))

C27_Witness ==
    /\ call.kind = "Execute" /\ Len(call.opts) = 1
    /\ call.opts[1].kind = "PatchValue" /\ call.opts[1].type = "A"
    /\ globalRegistry["a"].cacheable /\ last.cacheAtStart = [id \in {"a"} |-> 1]
    /\ last.run = 2 /\ last.err = NoErr
    /\ last.returned = [id \in IDs |-> IF id = "a" THEN PatchedVal ELSE 2]
    /\ last.cacheAtEnd = last.cacheAtStart


\* C28: for a Patch[T](n) with T registered that no later option of the call
\* overrides, the registered function of the node of T is never called, and in
\* a run that returns a result for the node the function n.Run was called and
\* the result is the value it returned in that run.
C28_PatchRuns ==
    Configured =>
        \A i \in PatchesOf("Patch") :
            Effective(i) =>
                LET id == typeToID[call.opts[i].type] IN
                /\ ~OriginalCalled(id)
                /\ (last.run = runNo /\ last.err = NoErr /\ Has(last.returned, id)) =>
                      /\ <<id, "patched">> \in last.fns
                      /\ last.outs[id] # Null
                      /\ last.returned[id] = last.outs[id]


\* ---------------------------------------------------------------------
\* Cache hits and cache Get errors inside a level
\* ---------------------------------------------------------------------

\* the goroutine of the task found its node in the cache
HitTask(t) == t.val # Null

\* C31: on a cache hit for a node that uses the cache the node's function
\* is not invoked, the result recorded for the node is the cached value and
\* the cache is not written for it; when the cache Get returns an error the
\* node's function is not invoked either (and nothing is recorded for it)
C31_CacheHitSkipsRun ==
    \A ki \in TaskIdx :
        LET t == Task(ki[1], ki[2]) IN
        /\ HitTask(t) =>
              /\ UseCache(nodes[t.id], cfg)
              /\ cur.gets[t.id] = 1
              /\ cur.calls[t.id] = 0
              /\ cur.sets[t.id] = 0
              /\ t.out = Null
              /\ Has(cur.cacheAtStart, t.id)
              /\ t.val = cur.cacheAtStart[t.id]
              /\ cache[t.id] = t.val
              /\ t.pc \in {"hit", "done"}
              /\ t.pc = "done" => Has(results, t.id) /\ results[t.id] = t.val
        /\ CacheGetErr(t.id) \in Range(errCh) =>
              /\ t.pc = "failed"
              /\ cur.calls[t.id] = 0
              /\ cur.sets[t.id] = 0
              /\ ~Has(results, t.id)

\* a hit has been recorded as the node's result while another node of the
\* execution has run its function
C31_Witness ==
    \E ki \in TaskIdx :
        LET t == Task(ki[1], ki[2]) IN
        /\ HitTask(t)
        /\ t.pc = "done"
        /\ results[t.id] = t.val
        /\ \E id \in DOMAIN nodes : cur.calls[id] = 1

\* a cache Get has failed and the level has been joined with that error
C31_GetErrorWitness ==
    /\ Done
    /\ \E id \in DOMAIN nodes : last.err = CacheGetErr(id) /\ last.calls[id] = 0

\* ---------------------------------------------------------------------
\* Cancellation while the last level runs
\* ---------------------------------------------------------------------

\* the execution was cancelled while its last level was running
CancelledInLast == Done /\ last.levels # <<>> /\ last.cancelAt = Len(last.levels)

\* C39: cancellation is observed only at the top of a level: when the
\* context is cancelled while the last level runs, the execution never
\* reports the context's error, and when every task of that level stores its
\* result it returns nil with a result for every node
C39_CancelInLastLevel ==
    CancelledInLast =>
        /\ last.err # CtxErr
        /\ Range(last.levels[Len(last.levels)]) \subseteq DOMAIN last.committed =>
              /\ last.err = NoErr
              /\ DOMAIN last.returned = DOMAIN nodes
              /\ last.returned = last.committed

\* cancelled during the second of two levels, and the execution succeeded
C39_Witness ==
    /\ CancelledInLast
    /\ Len(last.levels) = 2
    /\ last.err = NoErr
    /\ DOMAIN last.returned = IDs

\* ---------------------------------------------------------------------
\* Earliest levels
\* ---------------------------------------------------------------------

\* the number of the level the scheduler has put id in, counted from 0
LevelNo(id) == (CHOOSE k \in LevelsOf(levels, id) : TRUE) - 1

\* the highest level number among the dependencies of id
MaxDepLevel(id) ==
    CHOOSE m \in {LevelNo(d) : d \in DepSet(nodes, id)} :
        \A d \in DepSet(nodes, id) : LevelNo(d) <= m

\* a dependency list that names one identifier more than once
Repeats(deps) == \E i, j \in 1..Len(deps) : i # j /\ deps[i] = deps[j]

\* C35: topoSortLevels puts every node in the earliest possible level: a
\* node without dependencies in level 0, any other node in level 1 + the
\* highest level of its dependencies, also when a dependency list names the
\* same identifier more than once
C35_EarliestLevel ==
    (pc = "sorted" /\ schedErr = NoErr) =>
        \A id \in DOMAIN nodes :
            /\ Cardinality(LevelsOf(levels, id)) = 1
            /\ LevelNo(id) = IF nodes[id].dependsOn = <<>> THEN 0
                             ELSE 1 + MaxDepLevel(id)

\* three levels, with a node that names its dependency twice and a node whose
\* dependencies are in two different levels
C35_Witness ==
    /\ pc = "sorted" /\ schedErr = NoErr
    /\ Len(levels) = 3
    /\ \E id \in DOMAIN nodes : Repeats(nodes[id].dependsOn)
    /\ \E id \in DOMAIN nodes :
          \E d, e \in DepSet(nodes, id) : LevelNo(d) # LevelNo(e)

\* ---------------------------------------------------------------------
\* Resolution of catalogs with cycles, and the scheduler on the subset
\* ---------------------------------------------------------------------

\* resolveSubgraph has returned
Resolved == pc \in {"resolved", "built", "scheduled"}

\* C36: subgraph resolution returns on every catalog, also when the
\* dependency relation has cycles or self-loops: when everything reachable
\* from the targets is in the catalog it returns the reachable set (BuildFor
\* too), otherwise the unknown-node error; a cycle in the subset is reported
\* by the scheduler when the subset is run, and only then
C36_ResolveTerminatesOnCycles ==
    /\ Resolved =>
          /\ Reachable \subseteq DOMAIN nodes =>
                resolved.err = NoErr /\ DOMAIN resolved.needed = Reachable
          /\ ~(Reachable \subseteq DOMAIN nodes) =>
                /\ resolved.err.kind = "unknown node"
                /\ resolved.err.id \in Reachable \ DOMAIN nodes
                /\ resolved.needed = EmptyMap
    /\ pc \in {"built", "scheduled"} => built = resolved
    /\ pc = "scheduled" =>
          /\ ~Acyclic(resolved.needed) => schedErr = CycleErr /\ levels = <<>>
          /\ Acyclic(resolved.needed) =>
                schedErr = NoErr /\ Range(Flatten(levels)) = Reachable

\* a self-loop and a cycle of two nodes below the target: the subset is all
\* three nodes and the scheduler has reported the cycle
C36_Witness ==
    /\ pc = "scheduled"
    /\ targets = <<"c">>
    /\ nodes["c"].dependsOn = <<"b", "c">>
    /\ nodes["b"].dependsOn = <<"a">>
    /\ nodes["a"].dependsOn = <<"b">>
    /\ DOMAIN resolved.needed = IDs
    /\ schedErr = CycleErr

\* C37: every subset a successful resolution returns is closed under
\* dependsOn, so the scheduler never fails on it with the
\* unknown-dependency error: it accepts the subset or reports a cycle
C37_ResolvedSubsetClosed ==
    /\ (Resolved /\ resolved.err = NoErr) =>
          /\ Closed(resolved.needed)
          /\ CheckDeps(KeysInOrder(resolved.needed, order), resolved.needed) = NoErr
    /\ pc = "scheduled" => schedErr \in {NoErr, CycleErr}

\* a catalog with a dependency on a missing node outside the subset: the
\* subset has been scheduled
C37_Witness ==
    /\ pc = "scheduled"
    /\ ~Closed(nodes)
    /\ DOMAIN resolved.needed = {"a"}
    /\ schedErr = NoErr
    /\ levels = << <<"a">> >>

\* a closed subset with a cycle: the scheduler's only failure
C37_CycleWitness ==
    /\ pc = "scheduled"
    /\ schedErr = CycleErr
    /\ Closed(resolved.needed)

\* ---------------------------------------------------------------------
\* The type index follows the registry
\* ---------------------------------------------------------------------

\* a Register call has just returned without a panic
Registered == obs'.op = "Register" /\ ~obs'.panicked

\* what one call does to the type index and to the keys of the registry
IndexStep ==
    /\ Registered =>
          /\ Has(typeToID', obs'.type)
          /\ typeToID'[obs'.type] = obs'.id
          /\ DOMAIN typeToID' = DOMAIN typeToID \cup {obs'.type}
          /\ \A T \in DOMAIN typeToID \ {obs'.type} : typeToID'[T] = typeToID[T]
          /\ DOMAIN globalRegistry' = DOMAIN globalRegistry \cup {obs'.id}
    /\ obs'.op = "ResetRegistry" =>
          typeToID' = EmptyMap /\ globalRegistry' = EmptyMap
    /\ (~Registered /\ obs'.op # "ResetRegistry") =>
          typeToID' = typeToID /\ globalRegistry' = globalRegistry

\* C38: after any sequence of Register calls (panicking ones included) and
\* ResetRegistry calls, every identifier in the type index is the identifier
\* of a node in the registry, and the entry of a type is the identifier of
\* the node registered last with that output type: a registration sets the
\* entry of its type to its identifier and leaves the other entries, a
\* panicking registration and the cache calls leave every entry, and
\* ResetRegistry removes all of them
C38_TypeIndexFollowsRegistry ==
    /\ [](\A T \in DOMAIN typeToID :
             /\ Has(globalRegistry, typeToID[T])
             /\ globalRegistry[typeToID[T]].id = typeToID[T])
    /\ [][IndexStep]_vars

\* two nodes with output type A are registered and the index names the
\* second; a registration of the first identifier with type B has panicked
C38_Witness ==
    /\ DOMAIN globalRegistry = {"a", "b"}
    /\ typeToID = [T \in {"A"} |-> "b"]
    /\ obs.op = "Register" /\ obs.panicked /\ obs.id = "a" /\ obs.type = "B"

\* ---------------------------------------------------------------------
\* The catalog a call is given
\* ---------------------------------------------------------------------

\* the call was given the caller's map with WithRegistry
GivenCatalog == \E i \in 1..Len(call.opts) : call.opts[i].kind = "WithRegistry"

\* C34: subgraph resolution and execution never change the catalog they are
\* given: after resolveSubgraph, BuildFor or a call of Execute, ExecuteFor or
\* executeForIDs, successful or failed, the catalog has the keys and the node
\* descriptors it had before; so has the global registry
C34_CatalogNotMutated ==
    /\ pc \in {"resolved", "built", "scheduled"} =>
          \A id \in DOMAIN resolved.needed : resolved.needed[id] = nodes[id]
    /\ call.kind # "none" =>
          /\ call.custom = CustomRegistry
          /\ globalRegistry \in TypedRegistries

\* WithRegistry and then PatchValue for the type of b: the caller's map has
\* got a node b
C34_MutatedWitness ==
    /\ GivenCatalog
    /\ call.kind = "ExecuteFor" /\ call.returned /\ call.err = NoErr
    /\ DOMAIN call.custom = {"a", "b"}

\* ---------------------------------------------------------------------
\* Width of a level and functions in flight
\* ---------------------------------------------------------------------

\* the tasks of level k whose function has been called and has not returned
InFlight(k) == {i \in 1..Len(tasks[k]) : tasks[k][i].pc = "running"}

\* the goroutine of the task has reached the call of its function
ReadyToRun(t) ==
    \/ t.pc = "miss"
    \/ t.pc = "spawned" /\ ~(cfg.cache /\ nodes[t.id].cacheable /\ t.id \notin cfg.ignoreCacheFor)

\* C33: the engine puts no limit on the width of a level: while a level
\* runs every one of its tasks has a goroutine, a task that has reached the
\* call of its function can always make the call, however many functions of
\* the level are in flight, and only tasks of the running level are in
\* flight; so all n functions of a level of n nodes can be in flight at once
C33_NoWidthLimit ==
    pc = "wait" =>
        /\ \A i \in 1..Len(tasks[lvl]) :
              /\ tasks[lvl][i].pc # "idle"
              /\ ReadyToRun(tasks[lvl][i]) => ENABLED Invoke(lvl, i)
        /\ \A k \in 1..Len(tasks) : k # lvl => InFlight(k) = {}
        /\ Cardinality(InFlight(lvl)) <= Len(levels[lvl])

\* a level of three nodes with all three functions in flight
C33_Witness ==
    /\ pc = "wait"
    /\ Len(levels[lvl]) = 3
    /\ Cardinality(InFlight(lvl)) = 3

----------------------------------------------------------------------------
(* engine.mu: the goroutines of one level, with the Lock, RLock and map     *)
(* accesses of runLevel as separate steps                                   *)

\* Lock returns although goroutines hold the read lock
CanLockOverReaders(m) == m.writer = 0

\* e.mu.Lock() returns: no goroutine holds the write lock or the read lock
CanLock(m) == m.writer = 0 /\ m.readers = {}

\* e.mu.RLock() returns: no goroutine holds the write lock
CanRLock(m) == m.writer = 0

\* the context is given e.results itself
NodeCtxLive(r) == [live |-> TRUE, m |-> r]

\* withResults(ctx, e.copyResults()): the map the function of a node can read
NodeCtxResults(r) == [live |-> FALSE, m |-> copyResults(r)]

\* no map has been handed to the function
NoNodeCtx == [live |-> FALSE, m |-> EmptyMap]

\* a goroutine of the level; given is e.results as it was when the map for the
\* function was made
SpawnedTask(id) == [id |-> id, pc |-> "spawned", snap |-> NoNodeCtx, val |-> Null,
                    out |-> Null, given |-> EmptyMap]

\* one level of independent nodes, cacheable or not, whose functions may
\* fail; the cache holds the outputs of some of the cacheable nodes
InitLock ==
    /\ \E S \in SUBSET IDs \ {{}} :
          /\ nodes \in {AsNodes(g) : g \in [S -> {<<>>} \X {"ok", "flaky"} \X BOOLEAN]}
          /\ levels = << SelectSeq(<<"a", "b", "c">>, LAMBDA id : id \in S) >>
    /\ order = <<"a", "b", "c">>
    /\ cache \in {[id \in W |-> 1] : W \in SUBSET Cacheables(nodes)}
    /\ tasks = << [i \in 1..Len(levels[1]) |-> SpawnedTask(levels[1][i])] >>
    /\ lvl = 1
    /\ runNo = 2
    /\ cfg = DefaultConfig
    /\ pc = "wait"
    /\ schedErr = NoErr
    /\ results = EmptyMap
    /\ errCh = <<>>
    /\ cancelled = FALSE
    /\ cur = NewCur(cache)
    /\ last = NoRun
    /\ prev = NoRun
    /\ targets = <<>>
    /\ resolved = NoResolution
    /\ built = NoResolution
    /\ execs = <<>>
    /\ executionCount = NoCount
    /\ cacheFallible = FALSE
    /\ cancellable = FALSE
    /\ globalRegistry = EmptyMap
    /\ typeToID = EmptyMap
    /\ call = NoCall
    /\ obs = NoObs
    /\ lastOp = NoOps
    /\ mu = Unlocked

\* what the goroutines of a level leave alone
lockFrame == <<nodes, order, pc, levels, schedErr, lvl, cfg, cancelled, runNo, cur,
               last, prev, cacheFallible, cancellable, targets, resolved, built,
               execs, executionCount, globalRegistry, typeToID, call, obs, lastOp>>

Goroutines == 1..Len(tasks[1])

SetGoroutine(i, t) == tasks' = [tasks EXCEPT ![1][i] = t]

\* useCache and e.cache.Get: a hit goes to the Lock of the hit branch, anything
\* else to the RLock before the function is called
GetOrMiss(i) ==
    LET t == tasks[1][i] IN
    /\ t.pc = "spawned"
    /\ IF UseCache(nodes[t.id], cfg) /\ Has(cache, t.id)
       THEN SetGoroutine(i, [t EXCEPT !.pc = "lock", !.val = cache[t.id]])
       ELSE SetGoroutine(i, [t EXCEPT !.pc = "rlock"])
    /\ UNCHANGED <<lockFrame, results, errCh, cache, mu>>

\* e.mu.Lock()
Lock(i) ==
    LET t == tasks[1][i] IN
    /\ t.pc = "lock"
    /\ CanLock(mu)
    /\ mu' = [mu EXCEPT !.writer = i]
    /\ SetGoroutine(i, [t EXCEPT !.pc = "locked"])
    /\ UNCHANGED <<lockFrame, results, errCh, cache>>

\* e.results[nodeID] = ...: the map write begins
WriteBegin(i) ==
    LET t == tasks[1][i] IN
    /\ t.pc = "locked"
    /\ SetGoroutine(i, [t EXCEPT !.pc = "writing"])
    /\ UNCHANGED <<lockFrame, results, errCh, cache, mu>>

\* the map write is done: val of the hit, or the output of the function
WriteEnd(i) ==
    LET t == tasks[1][i] IN
    /\ t.pc = "writing"
    /\ results' = Put(results, t.id, IF t.val # Null THEN t.val ELSE t.out)
    /\ SetGoroutine(i, [t EXCEPT !.pc = "written"])
    /\ UNCHANGED <<lockFrame, errCh, cache, mu>>

\* e.mu.Unlock(), and the goroutine returns
Unlock(i) ==
    LET t == tasks[1][i] IN
    /\ t.pc = "written"
    /\ mu' = [mu EXCEPT !.writer = 0]
    /\ SetGoroutine(i, [t EXCEPT !.pc = "done"])
    /\ UNCHANGED <<lockFrame, results, errCh, cache>>

\* e.mu.RLock()
RLock(i) ==
    LET t == tasks[1][i] IN
    /\ t.pc = "rlock"
    /\ CanRLock(mu)
    /\ mu' = [mu EXCEPT !.readers = @ \cup {i}]
    /\ SetGoroutine(i, [t EXCEPT !.pc = "rlocked"])
    /\ UNCHANGED <<lockFrame, results, errCh, cache>>

\* e.copyResults(): the loop over e.results begins
CopyBegin(i) ==
    LET t == tasks[1][i] IN
    /\ t.pc = "rlocked"
    /\ SetGoroutine(i, [t EXCEPT !.pc = "copying"])
    /\ UNCHANGED <<lockFrame, results, errCh, cache, mu>>

\* the copy is made and put into the context of the function
CopyEnd(i) ==
    LET t == tasks[1][i] IN
    /\ t.pc = "copying"
    /\ SetGoroutine(i, [t EXCEPT !.pc = "copied", !.snap = NodeCtxResults(results),
                                 !.given = results])
    /\ UNCHANGED <<lockFrame, results, errCh, cache, mu>>

\* e.mu.RUnlock(), and n.run(nodeCtx) is called
RUnlock(i) ==
    LET t == tasks[1][i] IN
    /\ t.pc = "copied"
    /\ mu' = [mu EXCEPT !.readers = @ \ {i}]
    /\ SetGoroutine(i, [t EXCEPT !.pc = "running"])
    /\ UNCHANGED <<lockFrame, results, errCh, cache>>

\* n.run returns: an error is sent and the goroutine returns, an output is
\* written to the cache when the node uses it and then stored under the lock
RunFn(i) ==
    LET t == tasks[1][i] IN
    /\ t.pc = "running"
    /\ \/ /\ nodes[t.id].run = "flaky"
          /\ SetGoroutine(i, [t EXCEPT !.pc = "failed"])
          /\ errCh' = Append(errCh, NodeErr(t.id))
          /\ UNCHANGED cache
       \/ /\ SetGoroutine(i, [t EXCEPT !.pc = "lock", !.out = runNo])
          /\ cache' = IF UseCache(nodes[t.id], cfg) THEN Put(cache, t.id, runNo) ELSE cache
          /\ UNCHANGED errCh
    /\ UNCHANGED <<lockFrame, results, mu>>

NextLock ==
    \/ \E i \in Goroutines : GetOrMiss(i)
    \/ \E i \in Goroutines : Lock(i)
    \/ \E i \in Goroutines : WriteBegin(i)
    \/ \E i \in Goroutines : WriteEnd(i)
    \/ \E i \in Goroutines : Unlock(i)
    \/ \E i \in Goroutines : RLock(i)
    \/ \E i \in Goroutines : CopyBegin(i)
    \/ \E i \in Goroutines : CopyEnd(i)
    \/ \E i \in Goroutines : RUnlock(i)
    \/ \E i \in Goroutines : RunFn(i)

SpecLock == InitLock /\ [][NextLock]_vars

\* the map the function of the task reads when it looks at its context
Seen(t) == IF t.snap.live THEN results ELSE t.snap.m

\* C32: every write to e.results is made by the goroutine that holds the
\* write lock and every copy by a goroutine that holds the read lock, the
\* write lock is never held together with a read lock, so no goroutine reads
\* or copies the map while another one writes it; and the function of a node
\* is given a copy: what it reads stays what the map was when the copy was
\* made, whatever is stored afterwards
C32_ResultsUnderLock ==
    /\ \A i \in Goroutines :
          /\ tasks[1][i].pc \in {"locked", "writing", "written"} <=> mu.writer = i
          /\ tasks[1][i].pc \in {"rlocked", "copying", "copied"} <=> i \in mu.readers
          /\ tasks[1][i].pc \in {"running", "lock", "failed", "done"} =>
                Seen(tasks[1][i]) = tasks[1][i].given
          /\ tasks[1][i].pc = "running" => ~tasks[1][i].snap.live
    /\ mu.writer # 0 => mu.readers = {}
    /\ \A i, j \in Goroutines :
          (i # j /\ tasks[1][i].pc = "writing") =>
              tasks[1][j].pc \notin {"writing", "copying"}

\* three goroutines: one is writing the map, another waits for the read
\* lock, the third has stored its result; one of them had a cache hit
C32_Witness ==
    /\ Len(tasks[1]) = 3
    /\ \E i, j, k \in Goroutines :
          /\ tasks[1][i].pc = "writing"
          /\ tasks[1][j].pc = "rlock"
          /\ tasks[1][k].pc = "done"
          /\ Has(results, tasks[1][k].id)
    /\ \E i \in Goroutines : tasks[1][i].val # Null

----------------------------------------------------------------------------
(* Termination of a run: the last execution of a process, with the          *)
(* goroutines of the engine scheduled fairly                                *)

\* one execution is still to come; the cache is empty or holds the outputs
\* that the cacheable nodes had in an earlier execution
InitLive ==
    /\ \E in \in EngineInputs :
          /\ nodes = in.nodes
          /\ order = in.order
          /\ cacheFallible = in.cacheFallible
          /\ cancellable = in.cancellable
    /\ pc = "idle"
    /\ InitIdle
    /\ runNo = MaxRuns - 1
    /\ cache \in {EmptyMap, [id \in Cacheables(nodes) |-> 1]}
    /\ globalRegistry = EmptyMap
    /\ typeToID = EmptyMap
    /\ call = NoCall
    /\ obs = NoObs
    /\ lastOp = NoOps
    /\ mu = Unlocked

\* a step of the goroutine that called run or of a goroutine of a level:
\* every node function and every cache call returns
RunStep ==
    \/ LevelTop
    \/ RunReturn
    \/ LevelJoin
    \/ \E ki \in TaskIdx : CacheGet(ki[1], ki[2])
    \/ \E ki \in TaskIdx : StoreHit(ki[1], ki[2])
    \/ \E ki \in TaskIdx : Invoke(ki[1], ki[2])
    \/ \E ki \in TaskIdx : FnReturn(ki[1], ki[2])
    \/ \E ki \in TaskIdx : CacheSet(ki[1], ki[2])
    \/ \E ki \in TaskIdx : Store(ki[1], ki[2])

SpecLive == InitLive /\ [][Next]_vars /\ WF_vars(RunStep)

\* the errors in the channel that come from the task
SentBy(t) == {n \in 1..Len(errCh) : errCh[n].id = t.id}

\* the run is in progress
Running == pc \in {"top", "wait"}

\* the execution ended in exactly one of the four ways
Ended ==
    \/ /\ last.err = NoErr
       /\ schedErr = NoErr
       /\ DOMAIN last.returned = DOMAIN nodes
    \/ /\ last.err.kind \in {"node", "cache get", "cache set"}
       /\ schedErr = NoErr
       /\ last.err.id \in DOMAIN nodes
       /\ last.returned = EmptyMap
    \/ /\ last.err.kind \in {"unknown dependency", "cycle"}
       /\ schedErr = last.err
       /\ last.calls = NoCount
       /\ last.returned = EmptyMap
    \/ /\ last.err = CtxErr
       /\ schedErr = NoErr
       /\ cancelled
       /\ last.returned = EmptyMap

\* C40: a run always terminates when every node function and every cache
\* call returns: a task sends at most one error, and only when it fails, so
\* the channel, whose buffer is the size of the level, never holds more
\* errors than the level has tasks and no send blocks; every level is joined
\* and the run returns; and it ends in success, in a node or cache failure,
\* in a scheduler failure or in cancellation
C40_RunTerminates ==
    /\ [](pc = "wait" =>
             /\ Len(errCh) <= Len(levels[lvl])
             /\ \A i \in 1..Len(tasks[lvl]) :
                   Cardinality(SentBy(tasks[lvl][i])) =
                       IF tasks[lvl][i].pc = "failed" THEN 1 ELSE 0)
    /\ [](Done => Ended)
    /\ Running ~> Done

\* a run of two levels has ended with the error of a task of the second
\* level, whose other task has stored its result
C40_Witness ==
    /\ Done
    /\ Len(last.levels) = 2
    /\ Len(last.levels[2]) = 2
    /\ last.err.kind = "node"
    /\ last.err.id \in Range(last.levels[2])
    /\ Cardinality(DOMAIN last.committed) = 2
====
